---------------------------- MODULE Spec2Model ----------------------------
(***************************************************************************)
(* Model of the frontier-based workflow execution engine                   *)
(* (src/app/engine.py, WorkflowEngine._execute_workflow and the loop       *)
(* subsystem) together with the node executors of src/app/nodes.py that    *)
(* the scheduler reacts to (route, loop start/end, for-each, break,        *)
(* continue, delay, transform).                                            *)
(*                                                                         *)
(* Node indices are 0-based as in the source.  A slot name is modelled as  *)
(* the tuple of its dot-separated segments ("output.a" is <<"output",      *)
(* "a">>), so that slot.split(".")[-1] is the last element.                *)
(***************************************************************************)
EXTENDS Integers, Sequences, FiniteSets, TLC

\* ------------------------------------------------------------------ bounds
\* Largest max_iter a loop-start node of the catalogue is configured with.
MaxIter == 2
\* Largest item collection a for-each start node iterates over.
MaxItems == 2
\* Largest threshold a gate of the catalogue is configured with.
MaxThreshold == 2
\* Most events an event source emits.
MaxEvents == 2
\* Largest node index of a workflow of the catalogue.
MaxNodes == 6

\* ------------------------------------------------------------- graph model
\* An edge of the workflow (schema.Edge).
Edge(s, t, ss, ts) == [source |-> s, target |-> t, source_slot |-> ss,
                       target_slot |-> ts, loop |-> FALSE]

\* The flow_out -> flow_in wiring used between flow nodes.
Flow(s, t) == Edge(s, t, <<"flow_out">>, <<"flow_in">>)

\* Node configuration defaults (schema.py field defaults).
Node(ty) == [type |-> ty, condition |-> TRUE, max_iter |-> MaxIter,
             items |-> 0, branches |-> {}, targets |-> {}, fallible |-> FALSE,
             emits |-> {}, duration_ms |-> 1000, raw |-> FALSE,
             threshold |-> 1, gate_condition |-> "None", reset_on_fire |-> TRUE,
             sources |-> {}, mode |-> "any", timeout_ms |-> "None"]

\* A 0-indexed node list from a sequence.
NodeList(seq) == [i \in 0 .. (Len(seq) - 1) |-> seq[i + 1]]

LoopStart(cond, n) == [Node("loop_start_flow") EXCEPT !.condition = cond, !.max_iter = n]
ForEachStart(n) == [Node("for_each_start_flow") EXCEPT !.items = n]
Route(bs, ts) == [Node("route_flow") EXCEPT !.branches = bs, !.targets = ts]
Fallible == [Node("transform_flow") EXCEPT !.fallible = TRUE]
BoolSource == [Node("transform_flow") EXCEPT !.emits = BOOLEAN]
NativeBoolean(b) == [Node("native_boolean") EXCEPT !.raw = b]
\* A script whose output is one of vs.
Source(vs) == [Node("transform_flow") EXCEPT !.emits = vs]
Gate(t, c, r) == [Node("gate_flow") EXCEPT !.threshold = t, !.gate_condition = c,
                                           !.reset_on_fire = r]
EventListener(srcs, md, timeout) ==
    [Node("event_listener_flow") EXCEPT !.sources = srcs, !.mode = md, !.timeout_ms = timeout]


\* --------------------------------------------------------- static analysis
\* Optional[int] = None for a loop context without an end node.
NoNode == -1

\* max_iterations of a loop start without a max_iter field (for-each).
DEFAULT_LOOP_MAX_ITERATIONS == 10000

\* isinstance(n, FlowType): only flow nodes are scheduled.
IsFlowType(node) == node.type # "native_boolean"

_is_loop_start_node(node) == node.type \in {"loop_start_flow", "for_each_start_flow"}

_is_loop_end_node(node) == node.type \in {"loop_end_flow", "for_each_end_flow"}

\* list(a set of small ints): CPython iterates such a set in ascending order.
RECURSIVE SetToList(_)
SetToList(S) ==
    IF S = {} THEN <<>>
    ELSE LET m == CHOOSE x \in S : \A y \in S : x <= y
         IN <<m>> \o SetToList(S \ {m})

\* The edges between two flow nodes.
ActiveEdges(w) ==
    SelectSeq(w.edges, LAMBDA e : IsFlowType(w.nodes[e.source]) /\ IsFlowType(w.nodes[e.target]))

EdgeSet(edges) == {edges[i] : i \in 1 .. Len(edges)}

\* forward_edges[source]: targets over non-loop-back edges.
ForwardEdges(edges, s) == {e.target : e \in {x \in EdgeSet(edges) : ~x.loop /\ x.source = s}}

\* dependencies[target] = set of sources, loop-back edges excluded.
_build_dependencies(edges, t) == {e.source : e \in {x \in EdgeSet(edges) : ~x.loop /\ x.target = t}}

\* dependents[source] = set of targets, loop-back edges excluded.
_build_dependents(edges, s) == {e.target : e \in {x \in EdgeSet(edges) : ~x.loop /\ x.source = s}}

EndTypeOf(node) == IF node.type = "for_each_start_flow" THEN "for_each_end_flow" ELSE "loop_end_flow"

\* The traversal of _find_loop_end_and_body: st = [stack, visited, body, depth].
RECURSIVE FindLoopEndWalk(_, _, _, _)
FindLoopEndWalk(nodes, edges, end_type, st) ==
    IF st.stack = <<>> THEN [loop_end_idx |-> NoNode, body_nodes |-> st.body]
    ELSE LET current == st.stack[Len(st.stack)]
             rest    == SubSeq(st.stack, 1, Len(st.stack) - 1)
             node    == nodes[current]
             next    == rest \o SetToList(ForwardEdges(edges, current))
             seen    == st.visited \cup {current}
         IN IF current \in st.visited
            THEN FindLoopEndWalk(nodes, edges, end_type, [st EXCEPT !.stack = rest])
            ELSE IF _is_loop_start_node(node)
            THEN FindLoopEndWalk(nodes, edges, end_type,
                    [stack |-> next, visited |-> seen,
                     body |-> st.body \cup {current}, depth |-> st.depth + 1])
            ELSE IF _is_loop_end_node(node)
            THEN IF st.depth > 0
                 THEN FindLoopEndWalk(nodes, edges, end_type,
                        [stack |-> next, visited |-> seen,
                         body |-> st.body \cup {current}, depth |-> st.depth - 1])
                 ELSE IF node.type = end_type
                 THEN [loop_end_idx |-> current, body_nodes |-> st.body]
                 ELSE FindLoopEndWalk(nodes, edges, end_type,
                        [st EXCEPT !.stack = next, !.visited = seen])
            ELSE FindLoopEndWalk(nodes, edges, end_type,
                    [stack |-> next, visited |-> seen,
                     body |-> st.body \cup {current}, depth |-> st.depth])

_find_loop_end_and_body(nodes, edges, start_idx) ==
    FindLoopEndWalk(nodes, edges, EndTypeOf(nodes[start_idx]),
        [stack |-> SetToList(ForwardEdges(edges, start_idx)),
         visited |-> {start_idx}, body |-> {}, depth |-> 0])

\* The traversal of _detect_loop_structures for one loop start: it stops as
\* soon as the matching end node is popped.
RECURSIVE DetectWalk(_, _, _, _)
DetectWalk(nodes, edges, end_type, st) ==
    IF st.stack = <<>> THEN [loop_end_idx |-> NoNode, body_nodes |-> st.body]
    ELSE LET current == st.stack[Len(st.stack)]
             rest    == SubSeq(st.stack, 1, Len(st.stack) - 1)
             node    == nodes[current]
             seen    == st.visited \cup {current}
         IN IF current \in st.visited
            THEN DetectWalk(nodes, edges, end_type, [st EXCEPT !.stack = rest])
            ELSE IF node.type = end_type
            THEN [loop_end_idx |-> current, body_nodes |-> st.body]
            ELSE IF _is_loop_start_node(node)
            THEN LET nested == _find_loop_end_and_body(nodes, edges, current)
                 IN IF nested.loop_end_idx # NoNode
                    THEN DetectWalk(nodes, edges, end_type,
                           [stack |-> rest \o SetToList(ForwardEdges(edges, nested.loop_end_idx)),
                            visited |-> seen,
                            body |-> st.body \cup {current, nested.loop_end_idx}
                                        \cup nested.body_nodes])
                    ELSE DetectWalk(nodes, edges, end_type,
                           [st EXCEPT !.stack = rest, !.visited = seen])
            ELSE DetectWalk(nodes, edges, end_type,
                   [stack |-> rest \o SetToList(ForwardEdges(edges, current)),
                    visited |-> seen, body |-> st.body \cup {current}])

\* loop_start_idx -> LoopContext, for every loop start of the workflow.
_detect_loop_structures(nodes, edges) ==
    [start_idx \in {i \in DOMAIN nodes : _is_loop_start_node(nodes[i])} |->
        LET found == DetectWalk(nodes, edges, EndTypeOf(nodes[start_idx]),
                        [stack |-> SetToList(ForwardEdges(edges, start_idx)),
                         visited |-> {start_idx}, body |-> {}])
        IN [loop_start_idx |-> start_idx,
            loop_end_idx   |-> found.loop_end_idx,
            loop_type      |-> IF nodes[start_idx].type = "for_each_start_flow"
                               THEN "for_each" ELSE "loop",
            iteration      |-> 0,
            max_iterations |-> IF nodes[start_idx].type = "loop_start_flow"
                               THEN nodes[start_idx].max_iter
                               ELSE DEFAULT_LOOP_MAX_ITERATIONS,
            body_nodes     |-> found.body_nodes,
            is_active      |-> TRUE]]


\* ------------------------------------------------------------------- state
VARIABLES
    workflow,       \* the Workflow being run: [nodes, edges]
    pc,             \* where the driving task is: "outer", "inner", "done", "failed"
    status,         \* state.status
    error,          \* state.error
    failed_nodes,   \* state.failed_nodes
    pending, ready, running, waiting, completed,
    node_outputs,   \* node index -> outputs (slot -> value)
    loop_stack,     \* active loop-start indices, innermost last
    loop_contexts,  \* loop-start index -> LoopContext
    wait_signals,   \* node index -> wait signal
    timer_tasks,    \* node index -> state of its suspension task
    variables,      \* the shared per-run variable store
    tasks,          \* node index -> state of the node task of the current fan-out
    results,        \* node index -> result of its finished node task
    exec_count,     \* history: how often node.execute ran, per node
    early_ready,    \* history: nodes put in ready while a dependency was not completed
    route_skipped,  \* history: nodes short-circuited by a route filter in this pass
    first_false,    \* history: loop starts whose iteration-0 condition was false
    signalled,      \* history: (signal, loop start, iteration before) handled so far
    executions,     \* engine.executions: the execution ids with a registered state
    execution_tasks,     \* engine.execution_tasks: the ids with a driving task
    pending_user_inputs, \* engine.pending_user_inputs: keys <<execution id, node>>
    subscriptions,  \* registry._subscriptions: pairs <<source id, subscriber (node)>>
    source_events,  \* history: source id -> number of events it has emitted
    emitted,        \* history: event-bus notification -> how often it was emitted
    last_call,      \* history: the last call made from outside the engine
    input_log,      \* history: node -> the "input" values of its executions
    rounds,         \* history: passes of the main loop that launched nodes
    iterations_taken,    \* history: loop iterations counted by loop signals
    tick,           \* flips at every step of the event loop's own tasks
    registry,       \* an EventSourceRegistry holding one registered source
    armed_at,       \* history: delay node -> the iterations begun when it last asked for a timer
    listeners,      \* execution id -> its wait_for_events task on the registry's source
    exposed         \* the node lists of the WorkflowExecutionState (state.*_nodes)

vars == <<workflow, pc, status, error, failed_nodes, pending, ready, running,
          waiting, completed, node_outputs, loop_stack, loop_contexts,
          wait_signals, timer_tasks, variables, tasks, results, exec_count,
          early_ready, route_skipped, first_false, signalled, executions,
          execution_tasks, pending_user_inputs, subscriptions, source_events,
          emitted, last_call, input_log, rounds, iterations_taken, tick,
          registry, armed_at, listeners, exposed>>

Nodes == DOMAIN workflow.nodes

dependencies(n) == _build_dependencies(ActiveEdges(workflow), n)

dependents(n) == _build_dependents(ActiveEdges(workflow), n)

\* ----------------------------------------------------------------- helpers
\* str(uuid.uuid4()) of the run, and the id of some other run.
ExecutionId == "E1"

OtherExecutionId == "E2"

\* The event sources registered in the registry.
RegisteredSources == {"s1", "s2"}

EmptyDict == [x \in {} |-> 0]

\* d[k] = v on a dict.
Put(d, k, v) == [x \in DOMAIN d \cup {k} |-> IF x = k THEN v ELSE d[x]]

\* del d[k] for every k of ks that d holds.
Drop(d, ks) == [x \in DOMAIN d \ ks |-> d[x]]

\* d.get(k, default)
Get(d, k, default) == IF k \in DOMAIN d THEN d[k] ELSE default

\* The local variables of _execute_workflow, as one record.
Locals == [pending |-> pending, ready |-> ready, running |-> running,
           waiting |-> waiting, completed |-> completed,
           node_outputs |-> node_outputs, loop_stack |-> loop_stack,
           loop_contexts |-> loop_contexts, wait_signals |-> wait_signals,
           timer_tasks |-> timer_tasks, variables |-> variables,
           failed_nodes |-> failed_nodes,
           tasks |-> tasks, early_ready |-> early_ready,
           route_skipped |-> route_skipped, first_false |-> first_false,
           signalled |-> signalled, subscriptions |-> subscriptions,
           iterations_taken |-> iterations_taken]

\* ready.add(n), recording whether a dependency of n was missing from completed.
AddReady(s, ns) ==
    [s EXCEPT !.ready = @ \cup ns,
              !.early_ready = @ \cup {n \in ns : ~(dependencies(n) \subseteq s.completed)}]

\* ---------------------------------------------------------- loop subsystem
\* The innermost active loop context holding node_idx, or NoNode.
RECURSIVE ScanLoopStack(_, _, _)
ScanLoopStack(node_idx, contexts, stack) ==
    IF stack = <<>> THEN NoNode
    ELSE LET k == stack[Len(stack)]
         IN IF /\ k \in DOMAIN contexts
               /\ contexts[k].is_active
               /\ \/ node_idx \in contexts[k].body_nodes
                  \/ node_idx = contexts[k].loop_start_idx
                  \/ node_idx = contexts[k].loop_end_idx
            THEN k
            ELSE ScanLoopStack(node_idx, contexts, SubSeq(stack, 1, Len(stack) - 1))

_get_current_loop_context(node_idx, s) == ScanLoopStack(node_idx, s.loop_contexts, s.loop_stack)

\* loop_stack.remove(k) when k is on the stack.
RemoveFromStack(stack, k) == SelectSeq(stack, LAMBDA x : x # k)

\* The loop end node of a context, as a set (empty when None).
EndOf(ctx) == IF ctx.loop_end_idx # NoNode THEN {ctx.loop_end_idx} ELSE {}

\* The finally block of wait_for_events for the listener tasks of ns:
\* registry.unsubscribe(source_id, subscriber_id) for every source.
Unsubscribe(subs, ns) == {x \in subs : x[2] \notin ns}

\* The suspension tasks of ns that have begun to run: task.cancel() raises
\* CancelledError inside them, so their finally block runs; a task cancelled
\* before its first step never enters its body.
Started(timers, ns) == {n \in ns \cap DOMAIN timers : timers[n].state = "listening"}

\* A reset that leaves the nested loop contexts as they are.
KeepNested(ctxs, body) == ctxs

\* "nested_ctx.iteration = 0; nested_ctx.is_active = True" for every loop
\* start among the body nodes.
ResetNested(ctxs, body) ==
    [j \in DOMAIN ctxs |->
        IF j \in body THEN [ctxs[j] EXCEPT !.iteration = 0, !.is_active = TRUE]
        ELSE ctxs[j]]

_reset_loop_body(k, s) ==
    LET ctx  == s.loop_contexts[k]
        body == ctx.body_nodes
        all  == body \cup EndOf(ctx)
    IN [s EXCEPT !.completed = @ \ all,
                 !.running = @ \ all,
                 !.ready = @ \ all,
                 !.pending = @ \cup all,
                 !.node_outputs = Drop(@, all),
                 !.loop_contexts = ResetNested(@, body),
                 !.waiting = @ \ all,
                 !.wait_signals = Drop(@, body),
                 !.timer_tasks = Drop(@, body),
                 !.subscriptions = Unsubscribe(@, Started(s.timer_tasks, body)),
                 !.route_skipped = @ \ all]

_skip_loop_body(k, s) ==
    LET ctx == s.loop_contexts[k]
        all == ctx.body_nodes \cup EndOf(ctx)
    IN [s EXCEPT !.pending = @ \ all,
                 !.ready = @ \ all,
                 !.completed = @ \cup all,
                 !.loop_contexts[k].is_active = FALSE]

\* A loop condition that ignores max_iterations.
ConditionOnly(k, s) == workflow.nodes[k].condition

_evaluate_loop_condition(k, s) ==
    LET ctx == s.loop_contexts[k]
    IN IF ctx.iteration >= ctx.max_iterations THEN FALSE
       ELSE IF ctx.loop_type = "for_each"
       THEN ctx.iteration < Get(Get(s.node_outputs, k, EmptyDict), <<"_items_count">>, 0)
       ELSE workflow.nodes[k].condition

\* ctx.iteration += 1
Increment(k, s) == [s EXCEPT !.loop_contexts[k].iteration = @ + 1,
                             !.iterations_taken = @ + 1]

\* The body is reset and the loop start re-queued.
Requeue(k, s) ==
    LET r == _reset_loop_body(k, s)
    IN AddReady([r EXCEPT !.completed = @ \ {k}], {k})

PopLoop(k, s) == [s EXCEPT !.loop_stack = RemoveFromStack(@, k)]

\* [handled, s]: the state after the signal of node_idx has been handled.
_handle_loop_signal(signal, node_idx, s) ==
    LET k == _get_current_loop_context(node_idx, s)
        note(r) == [r EXCEPT !.signalled = @ \cup
                        {<<signal, k, s.loop_contexts[k].iteration>>}]
    IN IF signal = "" \/ k = NoNode THEN [handled |-> FALSE, s |-> s]
       ELSE IF signal = "break"
       THEN [handled |-> TRUE, s |-> note(PopLoop(k, _skip_loop_body(k, s)))]
       ELSE IF signal = "continue"
       THEN LET i == Increment(k, s)
            IN [handled |-> TRUE,
                s |-> note(IF _evaluate_loop_condition(k, i) THEN Requeue(k, i)
                           ELSE PopLoop(k, _skip_loop_body(k, i)))]
       ELSE IF signal \in {"end", "for_each_end"}
       THEN LET i == Increment(k, s)
            IN [handled |-> TRUE,
                s |-> note(IF _evaluate_loop_condition(k, i) THEN Requeue(k, i)
                           ELSE PopLoop(k, [i EXCEPT !.loop_contexts[k].is_active = FALSE]))]
       ELSE [handled |-> FALSE, s |-> s]


\* ---------------------------------------------------------- node executors
\* Python's None where a string or a value is expected.
None == "None"

\* NodeExecutionResult()
NodeExecutionResult == [success |-> TRUE, outputs |-> EmptyDict, error |-> None,
                        next_target |-> None, wait_signal |-> EmptyDict]

\* WFFlowType.execute: flow_out carries a copy of the variable store.
WFFlowType == [NodeExecutionResult EXCEPT !.outputs = (<<"flow_out">> :> "variables")]

\* _gather_inputs for the target slot "input": the value the last edge into
\* that slot finds in node_outputs (exact slot, else its base slot), None
\* when there is none.
RECURSIVE ScanInputEdges(_, _, _, _)
ScanInputEdges(n, edges, outs, found) ==
    IF edges = <<>> THEN found
    ELSE LET edge == Head(edges)
             data == IF edge.source \in DOMAIN outs
                     THEN Get(outs[edge.source], edge.source_slot,
                              Get(outs[edge.source], <<edge.source_slot[1]>>, None))
                     ELSE None
         IN ScanInputEdges(n, Tail(edges), outs,
                IF edge.target = n /\ edge.target_slot = <<"input">> /\ data # None
                THEN data ELSE found)

_gather_inputs(n, s) == ScanInputEdges(n, workflow.edges, s.node_outputs, None)

\* eval(condition, {}, {count, threshold, accumulated, input}) for the
\* expressions of the catalogue; an expression that raises yields False.
EvalCondition(condition, count, threshold, accumulated, input_data) ==
    IF condition = "False" THEN FALSE
    ELSE IF condition = "input == 'go'" THEN input_data = "go"
    ELSE IF condition = "count > threshold" THEN count > threshold
    ELSE FALSE

\* "output": the accumulated list when it holds several values, its only
\* value when it holds one, None otherwise.
GateOutput(accumulated) ==
    IF Len(accumulated) > 1 THEN <<"list", accumulated>>
    ELSE IF Len(accumulated) = 1 THEN <<"value", accumulated[1]>>
    ELSE <<None>>

\* A gate that fires on every invocation.
ThresholdAlways(count, threshold) == TRUE

\* "should_fire = count >= threshold": a gate whose condition is unset or empty.
ThresholdReached(count, threshold) == count >= threshold

\* WFGateFlow.execute: [result, variables].
WFGateFlow(n, node, input_data, store, base) ==
    LET accumulated0 == Get(store.gate_accumulated, n, <<>>)
        count0 == Get(store.gate_count, n, 0)
        accumulated == IF input_data # None THEN Append(accumulated0, input_data)
                       ELSE accumulated0
        count == IF input_data # None THEN count0 + 1 ELSE count0
        should_fire == IF node.gate_condition # None
                       THEN EvalCondition(node.gate_condition, count, node.threshold,
                                          accumulated, input_data)
                       ELSE ThresholdReached(count, node.threshold)
        reset == should_fire /\ node.reset_on_fire
        outputs == [x \in DOMAIN base.outputs \cup
                          {<<"count">>, <<"accumulated">>, <<"triggered">>, <<"output">>}
                          \cup (IF reset THEN {<<"_gate_reset">>} ELSE {}) |->
                       IF x = <<"count">> THEN count
                       ELSE IF x = <<"accumulated">> THEN accumulated
                       ELSE IF x = <<"triggered">> THEN should_fire
                       ELSE IF x = <<"output">>
                       THEN (IF should_fire THEN GateOutput(accumulated) ELSE <<None>>)
                       ELSE IF x = <<"_gate_reset">> THEN TRUE
                       ELSE base.outputs[x]]
    IN [result |-> [base EXCEPT !.outputs = outputs],
        variables |-> [store EXCEPT
            !.gate_accumulated = Put(@, n, IF reset THEN <<>> ELSE accumulated),
            !.gate_count = Put(@, n, IF reset THEN 0 ELSE count)]]

\* An event payload that is None.
NoEvent == <<>>

\* WFEventListenerFlow.execute: [result, variables].
WFEventListenerFlow(n, node, store, base) ==
    IF n \in store.event_listener_resume
    THEN LET d == Get(store.event_listener_data, n,
                      [event |-> NoEvent, source |-> None, events |-> EmptyDict])
             outputs == [x \in DOMAIN base.outputs \cup
                               {<<"event">>, <<"source_id">>, <<"events">>, <<"timed_out">>} |->
                            IF x = <<"event">> THEN d.event
                            ELSE IF x = <<"source_id">> THEN d.source
                            ELSE IF x = <<"events">> THEN d.events
                            ELSE IF x = <<"timed_out">>
                            THEN n \in store.event_listener_timeout
                            ELSE base.outputs[x]]
         IN [result |-> [base EXCEPT !.outputs = outputs],
             variables |-> [store EXCEPT
                 !.event_listener_resume = @ \ {n},
                 !.event_listener_data = Drop(@, {n}),
                 !.event_listener_timeout = @ \ {n}]]
    ELSE [result |-> [base EXCEPT !.wait_signal =
                        [wait_type |-> "event_listener", sources |-> node.sources,
                         mode |-> node.mode, timeout_ms |-> node.timeout_ms]],
          variables |-> store]

\* The results node.execute(context) can return for node n in state s, each
\* with the variable store it leaves: [result, variables].
Execute(n, s) ==
    LET node == workflow.nodes[n]
        ty   == node.type
        out(r, k, v) == [r EXCEPT !.outputs = Put(@, k, v)]
        same(r) == [result |-> r, variables |-> s.variables]
    IN IF ty = "route_flow"
       THEN {same(IF target \in node.branches
                  THEN [out(WFFlowType, <<"output", target>>, "data")
                            EXCEPT !.next_target = target]
                  ELSE [out(WFFlowType, <<"default">>, "data")
                            EXCEPT !.next_target = "default"])
               : target \in node.targets}
       ELSE IF ty = "transform_flow"
       THEN {same(out(WFFlowType, <<"output">>, v))
               : v \in (IF node.emits = {} THEN {"data"} ELSE node.emits)}
            \cup (IF node.fallible
                  THEN {same([WFFlowType EXCEPT !.success = FALSE, !.error = "error"])}
                  ELSE {})
       ELSE IF ty = "loop_start_flow"
       THEN {same(out(WFFlowType, <<"iteration">>, s.variables.loop_iteration))}
       ELSE IF ty = "loop_end_flow"
       THEN {same(out(out(WFFlowType, <<"output">>, "data"), <<"_loop_signal">>, "end"))}
       ELSE IF ty = "for_each_start_flow"
       THEN LET index == s.variables.loop_iteration
                current == IF 0 <= index /\ index < node.items
                           THEN <<"item", index>> ELSE <<None>>
            IN {same(out(out(out(WFFlowType, <<"current">>, current),
                             <<"index">>, index), <<"_items_count">>, node.items))}
       ELSE IF ty = "for_each_end_flow"
       THEN {same(out(out(WFFlowType, <<"output">>, "data"),
                      <<"_loop_signal">>, "for_each_end"))}
       ELSE IF ty = "break_flow"
       THEN {same(out(WFFlowType, <<"_loop_signal">>, "break"))}
       ELSE IF ty = "continue_flow"
       THEN {same(out(WFFlowType, <<"_loop_signal">>, "continue"))}
       ELSE IF ty = "delay_flow"
       THEN IF n \in s.variables.delay_resume
            THEN {[result |-> out(WFFlowType, <<"output">>, _gather_inputs(n, s)),
                   variables |-> [s.variables EXCEPT !.delay_resume = @ \ {n}]]}
            ELSE {same([out(WFFlowType, <<"output">>, _gather_inputs(n, s))
                        EXCEPT !.wait_signal =
                        [wait_type |-> "timer", duration_ms |-> node.duration_ms,
                         count |-> 0, max_count |-> 1]])}
       ELSE IF ty = "gate_flow"
       THEN {WFGateFlow(n, node, _gather_inputs(n, s), s.variables, WFFlowType)}
       ELSE IF ty = "event_listener_flow"
       THEN {WFEventListenerFlow(n, node, s.variables, WFFlowType)}
       ELSE {same(WFFlowType)}

\* -------------------------------------------------------------- scheduler
\* The condition input of a loop start: the first connected condition edge
\* whose source has produced that slot, else the node's own default.
RECURSIVE ScanConditionEdges(_, _, _)
ScanConditionEdges(loop_start_idx, edges, outs) ==
    IF edges = <<>> THEN workflow.nodes[loop_start_idx].condition
    ELSE LET edge == Head(edges)
         IN IF /\ edge.target = loop_start_idx
               /\ edge.target_slot = <<"condition">>
               /\ edge.source_slot \in DOMAIN Get(outs, edge.source, EmptyDict)
            THEN outs[edge.source][edge.source_slot] = TRUE
            ELSE ScanConditionEdges(loop_start_idx, Tail(edges), outs)

_gather_loop_condition(loop_start_idx, s) ==
    ScanConditionEdges(loop_start_idx, workflow.edges, s.node_outputs)

\* loop_stack.append(n) unless n is on it.
Push(stack, n) == IF \E i \in 1 .. Len(stack) : stack[i] = n THEN stack ELSE Append(stack, n)

\* ready.discard(n); running.add(n); a node task is created.
StartTask(n, s) ==
    [s EXCEPT !.ready = @ \ {n}, !.running = @ \cup {n}, !.tasks[n] = "started"]

\* One pass of "for node_idx in list(ready)" for node_idx.
LaunchOne(n, s) ==
    IF _is_loop_start_node(workflow.nodes[n]) /\ n \in DOMAIN s.loop_contexts
    THEN LET v == [s EXCEPT !.variables.loop_iteration = s.loop_contexts[n].iteration]
         IN IF s.loop_contexts[n].iteration = 0 /\ ~_gather_loop_condition(n, v)
            THEN LET k == _skip_loop_body(n, v)
                 IN [k EXCEPT !.ready = @ \ {n}, !.completed = @ \cup {n},
                              !.first_false = @ \cup {n}]
            ELSE StartTask(n, [v EXCEPT !.loop_stack = Push(@, n)])
    ELSE StartTask(n, s)

RECURSIVE LaunchAll(_, _)
LaunchAll(list, s) ==
    IF list = <<>> THEN s ELSE LaunchAll(Tail(list), LaunchOne(Head(list), s))

\* A suspension task: a timer (resume_after_timer) or an event listener
\* (wait_for_events) with the events it has received so far.
SuspensionTask(kind, state) ==
    [kind |-> kind, state |-> state, received |-> EmptyDict, since |-> EmptyDict,
     event |-> NoEvent, source |-> None]

\* failed_nodes.append(n) for the nodes of a list, in order.
RECURSIVE AppendAll(_, _)
AppendAll(seq, list) ==
    IF list = <<>> THEN seq ELSE AppendAll(Append(seq, Head(list)), Tail(list))

\* The suspension tasks that are done are popped and their nodes re-queued;
\* the node of a task that raised is recorded as failed and not re-queued.
PollTimers(s) ==
    LET over   == {n \in DOMAIN s.timer_tasks : s.timer_tasks[n].state \in {"done", "error"}}
        raised == {n \in over : s.timer_tasks[n].state = "error"}
        done   == over \ raised
        events == {n \in done : Get(Get(s.wait_signals, n, EmptyDict), "wait_type", "timer")
                                    = "event_listener"}
        timers == done \ events
        r == [s EXCEPT !.timer_tasks = Drop(@, over),
                       !.waiting = @ \ over,
                       !.failed_nodes = AppendAll(@, SetToList(raised)),
                       !.variables.delay_resume = @ \cup timers,
                       !.variables.event_listener_resume = @ \cup events,
                       !.variables.event_listener_data =
                           [n \in DOMAIN @ \cup events |->
                              IF n \in events
                              THEN [event  |-> s.timer_tasks[n].event,
                                    source |-> s.timer_tasks[n].source,
                                    events |-> s.timer_tasks[n].received]
                              ELSE @[n]]]
    IN AddReady(r, done)

\* "Update dependencies for ready check after reset".
Sweep(s) ==
    LET free == {d \in s.pending : dependencies(d) \subseteq s.completed}
    IN AddReady([s EXCEPT !.pending = @ \ free], free)

\* A filter under which every edge of the route fires.
SlotMatchesAny(slot, target_key) == TRUE

\* slot == target_key or slot.split(".")[-1] == target_key
SlotMatches(slot, target_key) ==
    \/ slot = <<target_key>>
    \/ (slot # <<>> /\ slot[Len(slot)] = target_key)

\* The dependents a route result lets fire, and those it short-circuits.
AllowedDeps(n, target_key) ==
    {e.target : e \in {x \in EdgeSet(ActiveEdges(workflow)) :
        x.source = n /\ ~x.loop /\ SlotMatches(x.source_slot, target_key)}}

SkippedDeps(n, target_key) ==
    {e.target : e \in {x \in EdgeSet(ActiveEdges(workflow)) :
        x.source = n /\ ~x.loop /\ ~SlotMatches(x.source_slot, target_key)}}

\* "Skip non-selected branches so they don't block downstream".
SkipBranches(skip, s) ==
    LET hit == skip \cap s.pending
    IN [s EXCEPT !.completed = @ \cup hit,
                 !.pending = @ \ hit,
                 !.node_outputs = [x \in DOMAIN @ \cup hit |->
                                      IF x \in hit THEN EmptyDict ELSE @[x]],
                 !.route_skipped = @ \cup hit]

\* "Normal dependency propagation".
Propagate(n, result, s) ==
    LET routed  == result.next_target # None
        allowed == IF routed THEN AllowedDeps(n, result.next_target) ELSE dependents(n)
        s1      == IF routed
                   THEN SkipBranches(SkippedDeps(n, result.next_target) \ allowed, s)
                   ELSE s
        free    == {d \in allowed : /\ d \notin s1.completed
                                    /\ d \notin s1.running
                                    /\ dependencies(d) \subseteq s1.completed}
    IN AddReady([s1 EXCEPT !.pending = @ \ free], free)

\* A scheduler that takes a timer wait for a plain completion.
ArmNothing(n, result, s) == Propagate(n, result, s)

\* A timer wait: the node moves to waiting and a timer task is scheduled.
ArmTimer(n, result, s) ==
    [s EXCEPT !.wait_signals = Put(@, n, result.wait_signal),
              !.completed = @ \ {n},
              !.waiting = @ \cup {n},
              !.timer_tasks = Put(@, n, SuspensionTask("timer", "sleeping"))]

\* A gate wait: the node moves to waiting and nothing resumes it.
ArmGate(n, result, s) ==
    [s EXCEPT !.wait_signals = Put(@, n, result.wait_signal),
              !.completed = @ \ {n},
              !.waiting = @ \cup {n}]

\* An event-listener wait: the node moves to waiting and a wait_for_events
\* task is created.
ArmListener(n, result, s) ==
    [s EXCEPT !.wait_signals = Put(@, n, result.wait_signal),
              !.completed = @ \ {n},
              !.waiting = @ \cup {n},
              !.timer_tasks = Put(@, n, SuspensionTask("event_listener", "created"))]

\* The handling of a successful result of node n.
OnSuccess(n, result, s) ==
    LET s1 == [s EXCEPT !.completed = @ \cup {n},
                        !.node_outputs = Put(@, n, result.outputs)]
        loop_signal == Get(result.outputs, <<"_loop_signal">>, "")
        h == _handle_loop_signal(loop_signal, n, s1)
    IN IF loop_signal # "" /\ h.handled THEN Sweep(h.s)
       ELSE IF Get(result.wait_signal, "wait_type", "") = "timer"
       THEN ArmTimer(n, result, s1)
       ELSE IF Get(result.wait_signal, "wait_type", "") = "gate"
       THEN ArmGate(n, result, s1)
       ELSE IF Get(result.wait_signal, "wait_type", "") = "event_listener"
       THEN ArmListener(n, result, s1)
       ELSE Propagate(n, result, s1)


\* --------------------------------------------------------------- workflows
Plain(ty) == Node(ty)

Delay == Node("delay_flow")

\* A route with branches a and b feeding a join: the a branch has one node,
\* the b branch two; an unmatched target goes to the default output.
RouteJoin ==
    [nodes |-> NodeList(<<Plain("start_flow"), Route({"a", "b"}, {"a", "b", "x"}),
                          Plain("transform_flow"), Plain("transform_flow"),
                          Plain("transform_flow"), Plain("merge_flow"),
                          Plain("sink_flow")>>),
     edges |-> <<Flow(0, 1),
                 Edge(1, 2, <<"output", "a">>, <<"input">>),
                 Edge(1, 3, <<"output", "b">>, <<"input">>),
                 Edge(1, 6, <<"default">>, <<"input">>),
                 Edge(3, 4, <<"output">>, <<"input">>),
                 Edge(2, 5, <<"output">>, <<"input", "a">>),
                 Edge(4, 5, <<"output">>, <<"input", "b">>)>>]

\* Two scripts that may raise, run side by side.
FanOutFallible ==
    [nodes |-> NodeList(<<Plain("start_flow"), Fallible, Fallible, Plain("end_flow")>>),
     edges |-> <<Flow(0, 1), Flow(0, 2), Flow(1, 3), Flow(2, 3)>>]

\* start -> body node -> end -> after.
LinearLoop(cond, n) ==
    [nodes |-> NodeList(<<LoopStart(cond, n), Plain("transform_flow"),
                          Plain("loop_end_flow"), Plain("end_flow")>>),
     edges |-> <<Flow(0, 1), Flow(1, 2), Flow(2, 3)>>]

\* A loop whose body fans out into two branches that meet at the loop end.
DiamondLoop(cond, n) ==
    [nodes |-> NodeList(<<LoopStart(cond, n), Plain("transform_flow"),
                          Plain("transform_flow"), Plain("loop_end_flow"),
                          Plain("end_flow")>>),
     edges |-> <<Flow(0, 1), Flow(0, 2), Flow(1, 3), Flow(2, 3), Flow(3, 4)>>]

ForEachLoop(n) ==
    [nodes |-> NodeList(<<ForEachStart(n), Plain("transform_flow"),
                          Plain("for_each_end_flow"), Plain("end_flow")>>),
     edges |-> <<Flow(0, 1), Flow(1, 2), Flow(2, 3)>>]

\* A loop whose condition input is wired from a script's boolean output.
ConditionEdgeLoop(n) ==
    [nodes |-> NodeList(<<BoolSource, LoopStart(TRUE, n), Plain("transform_flow"),
                          Plain("loop_end_flow"), Plain("end_flow")>>),
     edges |-> <<Edge(0, 1, <<"output">>, <<"condition">>),
                 Flow(1, 2), Flow(2, 3), Flow(3, 4)>>]

\* A loop whose body holds a delay and, beside it, a break.
BreakLoop(n) ==
    [nodes |-> NodeList(<<LoopStart(TRUE, n), Delay, Plain("loop_end_flow"),
                          Plain("break_flow"), Plain("end_flow")>>),
     edges |-> <<Flow(0, 1), Flow(1, 2), Flow(0, 3), Flow(2, 4)>>]

\* A loop whose body holds a script and, beside it, a continue.
ContinueLoop(n) ==
    [nodes |-> NodeList(<<LoopStart(TRUE, n), Plain("transform_flow"),
                          Plain("loop_end_flow"), Plain("continue_flow"),
                          Plain("end_flow")>>),
     edges |-> <<Flow(0, 1), Flow(1, 2), Flow(0, 3), Flow(2, 4)>>]

\* A loop whose start also feeds a delay that leads nowhere.
SideDelayLoop(n) ==
    [nodes |-> NodeList(<<LoopStart(TRUE, n), Delay, Plain("transform_flow"),
                          Plain("loop_end_flow")>>),
     edges |-> <<Flow(0, 1), Flow(0, 2), Flow(2, 3)>>]

\* A loop whose condition input is wired from a constant boolean node.
NativeConditionLoop(b, n) ==
    [nodes |-> NodeList(<<NativeBoolean(b), LoopStart(TRUE, n), Plain("transform_flow"),
                          Plain("loop_end_flow"), Plain("end_flow")>>),
     edges |-> <<Edge(0, 1, <<"value">>, <<"condition">>),
                 Flow(1, 2), Flow(2, 3), Flow(3, 4)>>]

\* An inner loop (1..2) nested in an outer loop (0..5) whose body also
\* holds, beside the inner loop, a script followed by a continue.
NestedContinueLoop(n, m) ==
    [nodes |-> NodeList(<<LoopStart(TRUE, n), LoopStart(TRUE, m), Plain("loop_end_flow"),
                          Plain("transform_flow"), Plain("continue_flow"),
                          Plain("loop_end_flow")>>),
     edges |-> <<Flow(0, 1), Flow(1, 2), Flow(2, 5), Flow(0, 3), Flow(3, 4)>>]

\* A loop whose body routes either to a continue or to a script before the end.
RouteContinueLoop(n) ==
    [nodes |-> NodeList(<<LoopStart(TRUE, n), Route({"go", "skip"}, {"go", "skip"}),
                          Plain("transform_flow"), Plain("continue_flow"),
                          Plain("loop_end_flow"), Plain("end_flow")>>),
     edges |-> <<Flow(0, 1),
                 Edge(1, 2, <<"output", "go">>, <<"input">>),
                 Edge(1, 3, <<"output", "skip">>, <<"flow_in">>),
                 Flow(2, 4), Flow(4, 5)>>]

\* getattr(source_node, src_base) at link time: a constant node holds its
\* value, an output field of a flow node still holds its default None.
StaticValue(node) == IF node.type = "native_boolean" THEN node.raw ELSE FALSE

\* Workflow.link for the condition input of loop starts: the field takes the
\* source's value as it is at link time (None counts as false).
RECURSIVE LinkEdges(_, _)
LinkEdges(nodes, edges) ==
    IF edges = <<>> THEN nodes
    ELSE LET e == Head(edges)
         IN LinkEdges(IF e.target_slot = <<"condition">>
                      THEN [nodes EXCEPT ![e.target].condition = StaticValue(nodes[e.source])]
                      ELSE nodes,
                      Tail(edges))

link(w) == [w EXCEPT !.nodes = LinkEdges(w.nodes, w.edges)]

\* Two entry nodes, and two exit nodes.
TwoStarts ==
    [nodes |-> NodeList(<<Plain("start_flow"), Plain("start_flow"), Plain("end_flow")>>),
     edges |-> <<Flow(0, 2), Flow(1, 2)>>]

TwoEnds ==
    [nodes |-> NodeList(<<Plain("start_flow"), Plain("end_flow"), Plain("end_flow")>>),
     edges |-> <<Flow(0, 1), Flow(0, 2)>>]

\* start -> script -> delay -> sink, the data going through the delay.
DelayLine ==
    [nodes |-> NodeList(<<Plain("start_flow"), Source({"x", "y", None}), Delay,
                          Plain("sink_flow")>>),
     edges |-> <<Flow(0, 1), Edge(1, 2, <<"output">>, <<"input">>),
                 Edge(2, 3, <<"output">>, <<"input">>)>>]

\* A loop of 2 * t iterations feeding a gate with a script's output.
GateLoop(t, c, r) ==
    [nodes |-> NodeList(<<LoopStart(TRUE, 2 * t),
                          Source(IF c = None THEN {"x", None} ELSE {"x", "go"}),
                          Gate(t, c, r), Plain("loop_end_flow"), Plain("end_flow")>>),
     edges |-> <<Flow(0, 1), Edge(1, 2, <<"output">>, <<"input">>),
                 Flow(2, 3), Flow(3, 4)>>]

UserInputLine ==
    [nodes |-> NodeList(<<Plain("start_flow"), Plain("user_input_flow"),
                          Plain("end_flow")>>),
     edges |-> <<Flow(0, 1), Edge(1, 2, <<"message">>, <<"flow_in">>)>>]

\* start -> listener over the two sources -> end.
ListenerLine(md, timeout) ==
    [nodes |-> NodeList(<<Plain("start_flow"),
                          EventListener(RegisteredSources, md, timeout),
                          Plain("end_flow")>>),
     edges |-> <<Flow(0, 1), Flow(1, 2)>>]

\* A loop whose body holds a listener and, beside it, a continue.
ListenerLoop(md, n) ==
    [nodes |-> NodeList(<<LoopStart(TRUE, n),
                          EventListener(RegisteredSources, md, None),
                          Plain("loop_end_flow"), Plain("continue_flow")>>),
     edges |-> <<Flow(0, 1), Flow(1, 2), Flow(0, 3)>>]

\* Two loops side by side, both seeded at the start of the run: a plain loop
\* 0 -> 1 and a for-each loop 2 -> 3 -> 4.
TwinLoops(n, m) ==
    [nodes |-> NodeList(<<LoopStart(TRUE, n), Plain("loop_end_flow"),
                          ForEachStart(m), Plain("transform_flow"),
                          Plain("for_each_end_flow")>>),
     edges |-> <<Flow(0, 1), Flow(2, 3), Flow(3, 4)>>]

\* A loop whose condition input is wired, over a loop-back edge, from the
\* boolean output of a script of its own body.
FeedbackLoop(n) ==
    [nodes |-> NodeList(<<LoopStart(TRUE, n), BoolSource, Plain("loop_end_flow"),
                          Plain("end_flow")>>),
     edges |-> <<Flow(0, 1), Flow(1, 2), Flow(2, 3),
                 [Edge(1, 0, <<"output">>, <<"condition">>) EXCEPT !.loop = TRUE]>>]

\* An outer loop 0 .. 5 whose body holds an inner loop 1 -> 2 -> 3 followed
\* by a script.
NestedLoop(n, m) ==
    [nodes |-> NodeList(<<LoopStart(TRUE, n), LoopStart(TRUE, m), Plain("transform_flow"),
                          Plain("loop_end_flow"), Plain("transform_flow"),
                          Plain("loop_end_flow")>>),
     edges |-> <<Flow(0, 1), Flow(1, 2), Flow(2, 3), Flow(3, 4), Flow(4, 5)>>]

\* A for-each loop 2 -> 3 reached after two scripts, beside a plain loop
\* 4 -> 5 seeded at the start of the run.
OffsetLoops(n, m) ==
    [nodes |-> NodeList(<<Plain("transform_flow"), Plain("transform_flow"),
                          ForEachStart(m), Plain("for_each_end_flow"),
                          LoopStart(TRUE, n), Plain("loop_end_flow")>>),
     edges |-> <<Flow(0, 1), Flow(1, 2), Flow(2, 3), Flow(4, 5)>>]

\* A route whose branch a is a loop 1 -> 2 and whose branch b is a chain of
\* two scripts 3 -> 4.
RouteBesideLoop ==
    [nodes |-> NodeList(<<Route({"a", "b"}, {"a", "b"}), LoopStart(TRUE, 1),
                          Plain("loop_end_flow"), Plain("transform_flow"),
                          Plain("transform_flow")>>),
     edges |-> <<Edge(0, 1, <<"output", "a">>, <<"flow_in">>), Flow(1, 2),
                 Edge(0, 3, <<"output", "b">>, <<"input">>), Flow(3, 4)>>]

\* A loop whose body is a delay.
DelayLoop(n) ==
    [nodes |-> NodeList(<<LoopStart(TRUE, n), Delay, Plain("loop_end_flow"),
                          Plain("end_flow")>>),
     edges |-> <<Flow(0, 1), Flow(1, 2), Flow(2, 3)>>]

\* A fan-out into a chain 1 -> 3 and a single script 2, meeting at the end.
FanOutChain ==
    [nodes |-> NodeList(<<Plain("start_flow"), Plain("transform_flow"),
                          Plain("transform_flow"), Plain("transform_flow"),
                          Plain("end_flow")>>),
     edges |-> <<Flow(0, 1), Flow(0, 2), Flow(1, 3), Flow(3, 4), Flow(2, 4)>>]

Workflows ==
    {RouteJoin, FanOutFallible, TwoStarts, TwoEnds, DelayLine, UserInputLine,
     TwinLoops(MaxIter, MaxItems), FeedbackLoop(MaxIter), FanOutChain,
     OffsetLoops(MaxIter, MaxItems), DelayLoop(MaxIter), RouteBesideLoop}
    \cup {GateLoop(t, c, r) : t \in 1 .. MaxThreshold, r \in BOOLEAN,
                              c \in {None, "False", "input == 'go'", "count > threshold"}}
    \cup {ListenerLine(md, timeout) : md \in {"any", "race", "all"},
                                      timeout \in {None, "100"}}
    \cup {ListenerLoop(md, n) : md \in {"any", "all"}, n \in 1 .. MaxIter + 1}
    \cup {link(NativeConditionLoop(b, n)) : b \in BOOLEAN, n \in 1 .. MaxIter}
    \cup {NestedContinueLoop(n, m) : n \in 1 .. MaxIter, m \in 1 .. MaxIter}
    \cup {NestedLoop(n, m) : n \in 1 .. MaxIter, m \in 1 .. MaxIter}
    \cup {RouteContinueLoop(n) : n \in 1 .. MaxIter}
    \cup {LinearLoop(c, n) : c \in BOOLEAN, n \in 0 .. MaxIter}
    \cup {DiamondLoop(c, n) : c \in BOOLEAN, n \in 1 .. MaxIter}
    \cup {ForEachLoop(n) : n \in 0 .. MaxItems}
    \cup {link(ConditionEdgeLoop(n)) : n \in 1 .. MaxIter}
    \cup {BreakLoop(n) : n \in 1 .. MaxIter}
    \cup {ContinueLoop(n) : n \in 1 .. MaxIter}
    \cup {SideDelayLoop(n) : n \in 1 .. MaxIter}

\* ----------------------------------------------------------------- actions
\* What Store assigns.
locals == <<pending, ready, running, waiting, completed, node_outputs, loop_stack,
            loop_contexts, wait_signals, timer_tasks, variables, failed_nodes,
            tasks, early_ready, route_skipped, first_false, signalled,
            subscriptions, iterations_taken>>

\* ------------------------------------------------------- event sources
\* The largest max_triggers of a timer source, and the number of events after
\* which a source is no longer followed.
MaxTriggers == 2
MaxEmits == 3

SourceId == "src"
Subscribers == {"a", "b"}
Callbacks == {"cb1", "cb2"}

TimerSourceConfig(enabled, max_triggers, immediate) ==
    [source_type |-> "timer", enabled |-> enabled,
     max_triggers |-> max_triggers, immediate |-> immediate]
FSWatchSourceConfig(enabled) == [source_type |-> "fswatch", enabled |-> enabled]
BrowserSourceConfig(enabled) == [source_type |-> "browser", enabled |-> enabled]

SourceConfigs ==
    {TimerSourceConfig(e, m, i) :
        e \in BOOLEAN, m \in {-1} \cup (1..MaxTriggers), i \in BOOLEAN}
    \cup {FSWatchSourceConfig(e) : e \in BOOLEAN}
    \cup {BrowserSourceConfig(e) : e \in BOOLEAN}

\* A source after construction. events counts the events emitted since the
\* last start; task is the position of the _run_loop task.
EventSource(config) ==
    [config |-> config, status |-> "stopped", subscribers |-> {},
     task |-> "none", count |-> 0, events |-> 0]

source_subscribe(source, callback) ==
    [source EXCEPT !.subscribers = @ \cup {callback}]
source_unsubscribe(source, callback) ==
    [source EXCEPT !.subscribers = @ \ {callback}]
subscriber_count(source) == Cardinality(source.subscribers)
is_running(source) == source.status = "running"

\* EventSource.start; started is FALSE when _start_impl raises (the watch
\* path of a filesystem watcher does not exist).
source_start(source, started) ==
    IF source.status = "running" THEN source
    ELSE IF ~started THEN [source EXCEPT !.status = "error"]
    ELSE [source EXCEPT !.status = "running", !.count = 0, !.events = 0,
                        !.task = "created"]

\* EventSource.stop: the run loop task is cancelled and awaited.
source_stop(source) ==
    IF source.status = "stopped" THEN source
    ELSE [source EXCEPT !.status = "stopped", !.task = "none"]

NoSource == [sources |-> EmptyDict, subscriptions |-> EmptyDict]

\* registry.register(config) on a new registry.
Registered(config) ==
    [sources |-> SourceId :> EventSource(config), subscriptions |-> SourceId :> {}]

\* The engine after construction, before any execution is started.
Constructed ==
    /\ pc = "idle"
    /\ exposed = [pending_nodes |-> {}, ready_nodes |-> {}, running_nodes |-> {},
                  waiting_nodes |-> {}, completed_nodes |-> {}]
    /\ status = None
    /\ error = <<>>
    /\ failed_nodes = <<>>
    /\ pending = {} /\ ready = {} /\ running = {} /\ waiting = {} /\ completed = {}
    /\ node_outputs = EmptyDict
    /\ loop_stack = <<>>
    /\ loop_contexts = EmptyDict
    /\ wait_signals = EmptyDict
    /\ timer_tasks = EmptyDict
    /\ variables = [loop_iteration |-> 0, delay_resume |-> {},
                    gate_accumulated |-> EmptyDict, gate_count |-> EmptyDict,
                    event_listener_resume |-> {}, event_listener_data |-> EmptyDict,
                    event_listener_timeout |-> {}]
    /\ tasks = [n \in DOMAIN workflow.nodes |-> "none"]
    /\ results = [n \in DOMAIN workflow.nodes |-> NodeExecutionResult]
    /\ exec_count = [n \in DOMAIN workflow.nodes |-> 0]
    /\ early_ready = {}
    /\ route_skipped = {}
    /\ first_false = {}
    /\ signalled = {}
    /\ executions = {}
    /\ execution_tasks = {}
    /\ pending_user_inputs = {}
    /\ subscriptions = {}
    /\ source_events = [x \in RegisteredSources |-> 0]
    /\ emitted = [workflow_started |-> 0,
                  node_started |-> [n \in DOMAIN workflow.nodes |-> 0]]
    /\ last_call = <<>>
    /\ input_log = [n \in DOMAIN workflow.nodes |-> <<>>]
    /\ rounds = 0
    /\ iterations_taken = 0
    /\ tick = 0
    /\ armed_at = [n \in DOMAIN workflow.nodes |-> EmptyDict]

\* The engine after construction: no execution, and a workflow to be started.
EngineInit ==
    /\ workflow \in Workflows
    /\ Constructed

\* The engine after construction; the registry instance of this model holds
\* no source (the engine's own subscriptions are the variable subscriptions).
Init ==
    /\ EngineInit
    /\ registry = NoSource
    /\ listeners = EmptyDict

\* The locals of the driving task become s.
Store(s) ==
    /\ pending' = s.pending
    /\ ready' = s.ready
    /\ running' = s.running
    /\ waiting' = s.waiting
    /\ completed' = s.completed
    /\ node_outputs' = s.node_outputs
    /\ loop_stack' = s.loop_stack
    /\ loop_contexts' = s.loop_contexts
    /\ wait_signals' = s.wait_signals
    /\ timer_tasks' = s.timer_tasks
    /\ variables' = s.variables
    /\ failed_nodes' = s.failed_nodes
    /\ tasks' = s.tasks
    /\ early_ready' = s.early_ready
    /\ route_skipped' = s.route_skipped
    /\ first_false' = s.first_false
    /\ signalled' = s.signalled
    /\ subscriptions' = s.subscriptions
    /\ iterations_taken' = s.iterations_taken

\* An acceptance that never finds an error.
ValidateAlways(w) == TRUE

\* validate_workflow(w)["valid"]: at most one start node and one end node.
validate_workflow(w) ==
    /\ Cardinality({i \in DOMAIN w.nodes : w.nodes[i].type = "start_flow"}) <= 1
    /\ Cardinality({i \in DOMAIN w.nodes : w.nodes[i].type = "end_flow"}) <= 1

\* start_workflow, followed by the set-up of _execute_workflow up to the
\* first test of "while ready or running or timer_tasks".
StartWorkflow ==
    /\ pc = "idle"
    /\ IF validate_workflow(workflow)
       THEN LET flow == {i \in DOMAIN workflow.nodes : IsFlowType(workflow.nodes[i])}
                seed == {i \in flow : _build_dependencies(ActiveEdges(workflow), i) = {}}
            IN /\ pending' = flow \ seed
               /\ ready' = seed
               /\ completed' = DOMAIN workflow.nodes \ flow
               /\ loop_contexts' = _detect_loop_structures(workflow.nodes,
                                                           ActiveEdges(workflow))
               /\ executions' = executions \cup {ExecutionId}
               /\ execution_tasks' = execution_tasks \cup {ExecutionId}
               /\ emitted' = [emitted EXCEPT !.workflow_started = @ + 1]
               /\ status' = "running"
               /\ pc' = "outer"
       ELSE /\ pc' = "rejected"
            /\ UNCHANGED <<pending, ready, completed, loop_contexts, executions,
                           execution_tasks, emitted, status>>
    /\ UNCHANGED <<exposed, listeners, armed_at, registry, workflow, error, failed_nodes, running, waiting, node_outputs,
                   loop_stack, wait_signals, timer_tasks, variables, tasks, results,
                   exec_count, early_ready, route_skipped, first_false, signalled,
                   pending_user_inputs, subscriptions, source_events, last_call,
                   input_log, rounds, iterations_taken>>
    /\ tick' = 1 - tick

\* A loop test that forgets the suspension tasks.
WhileReadyOrRunning == ready # {} \/ running # {}

\* "while ready or running or timer_tasks"
MainLoopRuns == ready # {} \/ running # {} \/ DOMAIN timer_tasks # {}

\* One pass of the main loop up to the fan-out: the node sets are copied
\* into the execution state, finished suspension tasks are collected, then every ready node is launched (or the loop sleeps).
Round ==
    /\ pc = "outer"
    /\ MainLoopRuns
    /\ LET p == PollTimers(Locals)
           l == IF p.ready # {} THEN LaunchAll(SetToList(p.ready), p) ELSE p
       IN /\ Store(l)
          /\ pc' = IF \E n \in Nodes : l.tasks[n] # "none" THEN "inner" ELSE "outer"
          /\ rounds' = IF p.ready # {} THEN rounds + 1 ELSE rounds
          /\ tick' = IF l = Locals THEN tick ELSE 1 - tick
    /\ exposed' = [pending_nodes |-> pending, ready_nodes |-> ready,
                   running_nodes |-> running, waiting_nodes |-> waiting,
                   completed_nodes |-> completed]
    /\ UNCHANGED <<listeners, armed_at, registry, workflow, status, error, results, exec_count, executions,
                   execution_tasks, pending_user_inputs, source_events, emitted,
                   last_call, input_log>>

\* A key that only names the node.
input_key_of_node(execution_id, node_id) == <<ExecutionId, node_id>>

\* input_key = f"{execution_id}:{node_id}"
input_key(execution_id, node_id) == <<execution_id, node_id>>

\* The nodes reachable from a frontier over non-loop-back edges without
\* passing through the node stop.
RECURSIVE Reach(_, _, _)
Reach(frontier, seen, stop) ==
    IF frontier = {} THEN seen
    ELSE LET next == UNION {ForwardEdges(ActiveEdges(workflow), x) : x \in frontier}
                     \ (seen \cup {stop})
         IN Reach(next, seen \cup next, stop)

\* The loop starts of the workflow and, for a loop start k, its end node and
\* the nodes of its body in the graph.
LoopStarts == {k \in Nodes : _is_loop_start_node(workflow.nodes[k])}

LoopEnd(k) == loop_contexts[k].loop_end_idx

LoopBody(k) == Reach({k}, {}, LoopEnd(k)) \ {k}

\* The iterations begun so far (executions of the loop start) of the loops
\* whose body holds node n.
Iterations(n) ==
    LET around == {k \in DOMAIN loop_contexts :
                      loop_contexts[k].loop_end_idx # NoNode /\ n \in LoopBody(k)}
    IN [k \in around |-> exec_count[k]]

\* The node task of n runs: NODE_STARTED is emitted, then node.execute runs;
\* a user-input node registers its future and blocks on it.
ExecNode(n) ==
    /\ tasks[n] = "started"
    /\ emitted' = [emitted EXCEPT !.node_started[n] = @ + 1]
    /\ exec_count' = [exec_count EXCEPT ![n] = @ + 1]
    /\ IF workflow.nodes[n].type = "user_input_flow"
       THEN /\ pending_user_inputs' = pending_user_inputs \cup {input_key(ExecutionId, n)}
            /\ tasks' = [tasks EXCEPT ![n] = "blocked"]
            /\ UNCHANGED <<results, variables, input_log, armed_at>>
       ELSE /\ \E x \in Execute(n, Locals) :
                 /\ results' = [results EXCEPT ![n] = x.result]
                 /\ variables' = x.variables
            /\ tasks' = [tasks EXCEPT ![n] = "done"]
            /\ input_log' = IF workflow.nodes[n].type \in {"delay_flow", "gate_flow"}
                            THEN [input_log EXCEPT ![n] = Append(@, _gather_inputs(n, Locals))]
                            ELSE input_log
            /\ armed_at' = IF /\ workflow.nodes[n].type = "delay_flow"
                              /\ n \notin variables.delay_resume
                           THEN [armed_at EXCEPT ![n] = Iterations(n)]
                           ELSE armed_at
            /\ UNCHANGED pending_user_inputs
    /\ UNCHANGED <<exposed, listeners, registry, workflow, pc, status, error, failed_nodes, pending, ready,
                   running, waiting, completed, node_outputs, loop_stack,
                   loop_contexts, wait_signals, timer_tasks, early_ready,
                   route_skipped, first_false, signalled, executions,
                   execution_tasks, subscriptions, source_events, last_call,
                   rounds, iterations_taken>>
    /\ tick' = 1 - tick

\* What a user can type.
UserInputs == {"typed", "other"}

\* A scheduler that takes every result as a success.
ShouldRaiseNever(result) == FALSE

\* "if result.success ... else ... raise": a failed result aborts the run.
ShouldRaise(result) == ~result.success

\* A scheduler that leaves the inner loop after the first completion.
UntilFirstCompletion(ts) == FALSE

\* "while len(tasks) > 0": the inner loop goes on while a task of the
\* fan-out has not been collected.
InnerLoopRuns(ts) == \E m \in DOMAIN ts : ts[m] # "none"

\* The driving task takes the finished task of n out of asyncio.wait.
Complete(n) ==
    /\ pc = "inner"
    /\ tasks[n] = "done"
    /\ LET s == [Locals EXCEPT !.running = @ \ {n}, !.tasks[n] = "none"]
       IN IF ~ShouldRaise(results[n])
          THEN LET r == OnSuccess(n, results[n], s)
               IN /\ Store(r)
                  /\ pc' = IF InnerLoopRuns(r.tasks) THEN "inner" ELSE "outer"
                  /\ UNCHANGED <<status, error>>
          ELSE /\ Store([s EXCEPT !.failed_nodes = Append(@, n)])
               /\ status' = "failed"
               /\ error' = <<"Node failed", n, results[n].error>>
               /\ pc' = "failed"
    /\ UNCHANGED <<exposed, listeners, armed_at, registry, workflow, results, exec_count, executions, execution_tasks,
                   pending_user_inputs, source_events, emitted, last_call,
                   input_log, rounds>>
    /\ tick' = 1 - tick

\* The sleep of the timer task of n ends.
TimerElapse(n) ==
    /\ status = "running"
    /\ n \in DOMAIN timer_tasks
    /\ timer_tasks[n].kind = "timer"
    /\ timer_tasks[n].state = "sleeping"
    /\ timer_tasks' = [timer_tasks EXCEPT ![n].state = "done"]
    /\ UNCHANGED <<exposed, listeners, armed_at, registry, workflow, pc, status, error, failed_nodes, pending, ready,
                   running, waiting, completed, node_outputs, loop_stack,
                   loop_contexts, wait_signals, variables, tasks, results,
                   exec_count, early_ready, route_skipped, first_false, signalled,
                   executions, execution_tasks, pending_user_inputs, subscriptions,
                   source_events, emitted, last_call, input_log, rounds,
                   iterations_taken>>
    /\ tick' = 1 - tick

\* Nothing is ready, running or suspended: the run completes.
Finish ==
    /\ pc = "outer"
    /\ ~MainLoopRuns
    /\ status' = "completed"
    /\ pc' = "done"
    /\ UNCHANGED <<exposed, listeners, armed_at, registry, workflow, error, results, exec_count, executions,
                   execution_tasks, pending_user_inputs, source_events, emitted,
                   last_call, input_log, rounds>>
    /\ UNCHANGED locals
    /\ tick' = 1 - tick

\* provide_user_input(execution_id, node_id, user_input): the future under
\* that key, if any, is popped and resolved, and the node task returns the
\* value as its "message" output.
ProvideUserInput(execution_id, node_id, user_input) ==
    /\ \E n \in Nodes : workflow.nodes[n].type = "user_input_flow"
    /\ last_call' = <<"provide_user_input", execution_id, node_id, user_input>>
    /\ IF input_key(execution_id, node_id) \in pending_user_inputs
       THEN /\ pending_user_inputs' =
                   pending_user_inputs \ {input_key(execution_id, node_id)}
            /\ IF tasks[node_id] = "blocked"
               THEN /\ results' = [results EXCEPT ![node_id] =
                          [NodeExecutionResult EXCEPT
                              !.outputs = (<<"message">> :> user_input)]]
                    /\ tasks' = [tasks EXCEPT ![node_id] = "done"]
               ELSE UNCHANGED <<results, tasks>>
       ELSE UNCHANGED <<pending_user_inputs, results, tasks>>
    /\ UNCHANGED <<exposed, listeners, armed_at, registry, workflow, pc, status, error, failed_nodes, pending, ready,
                   running, waiting, completed, node_outputs, loop_stack,
                   loop_contexts, wait_signals, timer_tasks, variables,
                   exec_count, early_ready, route_skipped, first_false, signalled,
                   executions, execution_tasks, subscriptions, source_events,
                   emitted, input_log, rounds, iterations_taken>>
    /\ UNCHANGED tick

\* asyncio.wait_for(future, timeout) of the user-input node n times out.
InputTimeout(n) ==
    /\ tasks[n] = "blocked"
    /\ results' = [results EXCEPT ![n] =
          [NodeExecutionResult EXCEPT !.success = FALSE, !.error = "User input timeout"]]
    /\ tasks' = [tasks EXCEPT ![n] = "done"]
    /\ UNCHANGED <<exposed, listeners, armed_at, registry, workflow, pc, status, error, failed_nodes, pending, ready,
                   running, waiting, completed, node_outputs, loop_stack,
                   loop_contexts, wait_signals, timer_tasks, variables,
                   exec_count, early_ready, route_skipped, first_false, signalled,
                   executions, execution_tasks, pending_user_inputs, subscriptions,
                   source_events, emitted, last_call, input_log, rounds,
                   iterations_taken>>
    /\ UNCHANGED tick

\* cancel_execution(execution_id) on an execution that has a driving task,
\* finished or not (execution_tasks keeps the task after the run has ended):
\* the task is cancelled, which stops it only if it is still running, and the
\* state marked failed; node tasks and suspension tasks are left alone.
cancel_execution ==
    /\ ExecutionId \in execution_tasks
    /\ ExecutionId \in executions
    /\ status' = "failed"
    /\ error' = <<"Cancelled by user">>
    /\ pc' = IF status = "running" THEN "cancelled" ELSE pc
    /\ pending_user_inputs' = {k \in pending_user_inputs : k[1] # ExecutionId}
    /\ last_call' = <<"cancel_execution", ExecutionId>>
    /\ UNCHANGED <<exposed, listeners, armed_at, registry, workflow, results, exec_count, executions, execution_tasks,
                   source_events, emitted, input_log, rounds>>
    /\ UNCHANGED locals
    /\ UNCHANGED tick

\* The listener task of n starts: it subscribes to each of its sources that
\* is registered; a subscribe that raises ends the task through its finally.
ListenerSubscribe(n) ==
    /\ n \in DOMAIN timer_tasks
    /\ timer_tasks[n].kind = "event_listener"
    /\ timer_tasks[n].state = "created"
    /\ LET srcs == wait_signals[n].sources \cap RegisteredSources
       IN IF \E x \in srcs : <<x, n>> \in subscriptions
          THEN /\ timer_tasks' = [timer_tasks EXCEPT ![n].state = "error"]
               /\ subscriptions' = Unsubscribe(subscriptions, {n})
          ELSE /\ timer_tasks' = [timer_tasks EXCEPT ![n].state = "listening",
                                     ![n].since = [x \in srcs |-> source_events[x]]]
               /\ subscriptions' = subscriptions \cup {<<x, n>> : x \in srcs}
    /\ UNCHANGED <<exposed, listeners, armed_at, registry, workflow, pc, status, error, failed_nodes, pending, ready,
                   running, waiting, completed, node_outputs, loop_stack,
                   loop_contexts, wait_signals, variables, tasks, results,
                   exec_count, early_ready, route_skipped, first_false, signalled,
                   executions, execution_tasks, pending_user_inputs,
                   source_events, emitted, last_call, input_log, rounds,
                   iterations_taken>>
    /\ tick' = 1 - tick

\* A mode under which the first event always ends the wait.
ListenerSatisfiedByAny(md, srcs, received) == TRUE

\* "any"/"race": the first event triggers; "all": events from all sources.
ListenerSatisfied(md, srcs, received) ==
    \/ md \in {"any", "race"}
    \/ md = "all" /\ srcs \subseteq DOMAIN received

\* A running source emits an event: every listener subscribed to it takes
\* the event from its queue, and returns (unsubscribing) once its mode is
\* satisfied.
SourceEmit(src) ==
    /\ \E x \in subscriptions : x[1] = src
    /\ source_events[src] < MaxEvents
    /\ source_events' = [source_events EXCEPT ![src] = @ + 1]
    /\ LET payload == <<src, source_events[src] + 1>>
           hears == {n \in DOMAIN timer_tasks :
                        /\ timer_tasks[n].kind = "event_listener"
                        /\ timer_tasks[n].state = "listening"
                        /\ <<src, n>> \in subscriptions}
           got(n) == Put(timer_tasks[n].received, src, payload)
           ends == {n \in hears : ListenerSatisfied(wait_signals[n].mode,
                                                    wait_signals[n].sources, got(n))}
       IN /\ timer_tasks' = [n \in DOMAIN timer_tasks |->
                IF n \in ends
                THEN [timer_tasks[n] EXCEPT !.received = got(n), !.state = "done",
                                            !.event = payload, !.source = src]
                ELSE IF n \in hears
                THEN [timer_tasks[n] EXCEPT !.received = got(n)]
                ELSE timer_tasks[n]]
          /\ subscriptions' = Unsubscribe(subscriptions, ends)
    /\ UNCHANGED <<exposed, listeners, armed_at, registry, workflow, pc, status, error, failed_nodes, pending, ready,
                   running, waiting, completed, node_outputs, loop_stack,
                   loop_contexts, wait_signals, variables, tasks, results,
                   exec_count, early_ready, route_skipped, first_false, signalled,
                   executions, execution_tasks, pending_user_inputs, emitted,
                   last_call, input_log, rounds, iterations_taken>>
    /\ UNCHANGED tick

\* The timeout of the listener task of n elapses: it sets the timeout flag
\* and returns without an event, unsubscribing.
ListenerTimeout(n) ==
    /\ n \in DOMAIN timer_tasks
    /\ timer_tasks[n].kind = "event_listener"
    /\ timer_tasks[n].state = "listening"
    /\ wait_signals[n].timeout_ms # None
    /\ timer_tasks' = [timer_tasks EXCEPT ![n].state = "done"]
    /\ variables' = [variables EXCEPT !.event_listener_timeout = @ \cup {n}]
    /\ subscriptions' = Unsubscribe(subscriptions, {n})
    /\ UNCHANGED <<exposed, listeners, armed_at, registry, workflow, pc, status, error, failed_nodes, pending, ready,
                   running, waiting, completed, node_outputs, loop_stack,
                   loop_contexts, wait_signals, tasks, results,
                   exec_count, early_ready, route_skipped, first_false, signalled,
                   executions, execution_tasks, pending_user_inputs,
                   source_events, emitted, last_call, input_log, rounds,
                   iterations_taken>>
    /\ UNCHANGED tick

Next ==
    \/ StartWorkflow
    \/ Round
    \/ \E n \in Nodes : ExecNode(n)
    \/ \E n \in Nodes : Complete(n)
    \/ \E n \in Nodes : TimerElapse(n)
    \/ Finish
    \/ \E e \in {ExecutionId, OtherExecutionId}, n \in Nodes :
          \E v \in UserInputs : ProvideUserInput(e, n, v)
    \/ \E n \in Nodes : InputTimeout(n)
    \/ cancel_execution
    \/ \E n \in Nodes : ListenerSubscribe(n)
    \/ \E src \in RegisteredSources : SourceEmit(src)
    \/ \E n \in Nodes : ListenerTimeout(n)

Spec == Init /\ [][Next]_vars

\* A step of the driving task, of a node task or of a suspension task can be
\* taken: the enabling conditions of StartWorkflow, Round (when it finds
\* something to collect or launch), Finish, ExecNode, Complete, TimerElapse
\* and ListenerSubscribe.
CanStep ==
    \/ pc = "idle"
    \/ /\ pc = "outer"
       /\ \/ ready # {}
          \/ \E n \in DOMAIN timer_tasks : timer_tasks[n].state \in {"done", "error"}
          \/ ready = {} /\ running = {} /\ DOMAIN timer_tasks = {}
    \/ \E n \in Nodes : tasks[n] = "started"
    \/ pc = "inner" /\ \E n \in Nodes : tasks[n] = "done"
    \/ /\ status = "running"
       /\ \E n \in DOMAIN timer_tasks :
             timer_tasks[n].kind = "timer" /\ timer_tasks[n].state = "sleeping"
    \/ \E n \in DOMAIN timer_tasks :
          timer_tasks[n].kind = "event_listener" /\ timer_tasks[n].state = "created"

\* The event loop runs every task that can run, and timers elapse; calls
\* from outside (cancel, user input, source events) need not happen. The
\* steps of the loop's own tasks are the steps that flip tick.
FairSpec == Spec /\ WF_tick(CanStep /\ tick' = 1 - tick)


\* ------------------------------------------------- event source registry
engine_vars ==
    <<workflow, pc, status, error, failed_nodes, pending, ready, running,
      waiting, completed, node_outputs, loop_stack, loop_contexts,
      wait_signals, timer_tasks, variables, tasks, results, exec_count,
      early_ready, route_skipped, first_false, signalled, executions,
      execution_tasks, pending_user_inputs, subscriptions, source_events,
      emitted, last_call, input_log, rounds, iterations_taken, tick, armed_at,
      listeners, exposed>>

\* The registry reg after a registry.subscribe that passed its two checks:
\* the subscription is recorded, the callback attached and an enabled source
\* whose subscriber count is now 1 started.
Subscribed(reg, source_id, subscriber_id, callback, started) ==
    LET attached == source_subscribe(reg.sources[source_id], callback)
        source == IF subscriber_count(attached) = 1 /\ attached.config.enabled
                  THEN source_start(attached, started)
                  ELSE attached
    IN [reg EXCEPT
           !.subscriptions[source_id] = @ \cup {<<subscriber_id, callback>>},
           !.sources[source_id] = source]

\* registry.subscribe: raises (and changes nothing) for an unknown source or
\* a subscriber id already present; otherwise records the subscription,
\* attaches the callback and starts an enabled source whose subscriber count
\* is now 1.
subscribe(source_id, subscriber_id, callback, started) ==
    /\ source_id \in DOMAIN registry.sources
    /\ \A sub \in registry.subscriptions[source_id] : sub[1] # subscriber_id
    /\ started \/ registry.sources[source_id].config.source_type = "fswatch"
    /\ registry' = Subscribed(registry, source_id, subscriber_id, callback, started)
    /\ UNCHANGED engine_vars

\* The registry reg after registry.unsubscribe on a registered source.
Unsubscribed(reg, source_id, subscriber_id) ==
    LET found == {sub \in reg.subscriptions[source_id] : sub[1] = subscriber_id}
        detached == IF found = {} THEN reg.sources[source_id]
                    ELSE source_unsubscribe(reg.sources[source_id],
                                            (CHOOSE sub \in found : TRUE)[2])
        source == IF /\ subscriber_count(detached) = 0
                     /\ is_running(detached)
                     /\ detached.config.source_type # "browser"
                  THEN source_stop(detached)
                  ELSE detached
    IN [reg EXCEPT
           !.subscriptions[source_id] = @ \ found,
           !.sources[source_id] = source]

\* registry.unsubscribe: removes the subscription of subscriber_id and detaches
\* its callback, then stops a running source left without subscribers unless
\* it is a browser source.
unsubscribe(source_id, subscriber_id) ==
    /\ source_id \in DOMAIN registry.sources
    /\ registry' = Unsubscribed(registry, source_id, subscriber_id)
    /\ UNCHANGED engine_vars

\* One step of TimerSource._run_loop: the task starts (and emits at once when
\* immediate is set), or an interval elapses and an event is emitted, the
\* count incremented and max_triggers checked.
TimerSourceRun(source_id) ==
    /\ source_id \in DOMAIN registry.sources
    /\ LET source == registry.sources[source_id]
           config == source.config
       IN /\ config.source_type = "timer"
          /\ is_running(source)
          /\ source.events < MaxEmits
          /\ \/ /\ source.task = "created"
                /\ registry' = [registry EXCEPT !.sources[source_id] =
                      IF config.immediate
                      THEN [source EXCEPT !.task = "waiting", !.events = @ + 1,
                                          !.count = @ + 1]
                      ELSE [source EXCEPT !.task = "waiting"]]
             \/ /\ source.task = "waiting"
                /\ registry' = [registry EXCEPT !.sources[source_id] =
                      [source EXCEPT
                          !.events = @ + 1,
                          !.count = @ + 1,
                          !.task = IF /\ config.max_triggers > 0
                                      /\ source.count + 1 >= config.max_triggers
                                   THEN "ended" ELSE "waiting"]]
    /\ UNCHANGED engine_vars

\* A registry with one registered source, used through subscribe and
\* unsubscribe only; the engine stays as constructed.
RegistryInit ==
    /\ EngineInit
    /\ workflow = RouteJoin
    /\ registry \in {Registered(config) : config \in SourceConfigs}
    /\ listeners = EmptyDict

RegistryNext ==
    \/ \E subscriber_id \in Subscribers, callback \in Callbacks, started \in BOOLEAN :
          subscribe(SourceId, subscriber_id, callback, started)
    \/ \E subscriber_id \in Subscribers : unsubscribe(SourceId, subscriber_id)
    \/ TimerSourceRun(SourceId)

RegistrySpec == RegistryInit /\ [][RegistryNext]_vars

\* ------------------------------ listeners of two executions of a workflow
\* start -> listener on the registry's source -> end.
ListenOnSource(timeout) ==
    [nodes |-> NodeList(<<Plain("start_flow"),
                          EventListener({SourceId}, "any", timeout),
                          Plain("end_flow")>>),
     edges |-> <<Flow(0, 1), Flow(1, 2)>>]

ListenerIdx == CHOOSE n \in Nodes : workflow.nodes[n].type = "event_listener_flow"

\* state.workflow_id: the name in the workflow's options, the same for every
\* execution of the workflow.
workflow_id == "Lou"

\* The subscriber id wait_for_events builds for the listener node idx.
SubscriberIdOf(idx) == <<"workflow", workflow_id, idx>>

\* The on_event closure of the wait_for_events task of execution e.
on_event(e) == <<"on_event", e>>

\* A wait_for_events task that has not subscribed yet.
ListenerTask == [state |-> "created", queue |-> 0, received |-> 0, raised |-> None]

\* wait_for_events of execution e up to its wait: it subscribes to the
\* source; when registry.subscribe raises (the subscriber id is present
\* already, or the source fails to start) the finally block unsubscribes the
\* subscriber id and the task ends with the exception.
WaitForEventsSubscribe(e, started) ==
    /\ e \in DOMAIN listeners
    /\ listeners[e].state = "created"
    /\ SourceId \in DOMAIN registry.sources
    /\ LET sid == SubscriberIdOf(ListenerIdx)
           already == \E sub \in registry.subscriptions[SourceId] : sub[1] = sid
           before == registry.sources[SourceId]
           start_fails == /\ ~started
                          /\ subscriber_count(before) = 0
                          /\ before.config.enabled
                          /\ ~is_running(before)
           reg == IF already THEN registry
                  ELSE Subscribed(registry, SourceId, sid, on_event(e), started)
       IN /\ started \/ (before.config.source_type = "fswatch" /\ start_fails)
          /\ IF already \/ start_fails
             THEN /\ registry' = Unsubscribed(reg, SourceId, sid)
                  /\ listeners' = [listeners EXCEPT
                        ![e].state = "failed",
                        ![e].raised = IF already THEN "Already subscribed"
                                      ELSE "start failed"]
             ELSE /\ registry' = reg
                  /\ listeners' = [listeners EXCEPT ![e].state = "listening"]
    /\ UNCHANGED <<workflow, pc, status, error, failed_nodes, pending, ready,
                   running, waiting, completed, node_outputs, loop_stack,
                   loop_contexts, wait_signals, timer_tasks, variables, tasks,
                   results, exec_count, early_ready, route_skipped, first_false,
                   signalled, executions, execution_tasks, pending_user_inputs,
                   subscriptions, source_events, emitted, last_call, input_log,
                   rounds, iterations_taken, tick, armed_at, exposed>>

\* EventSource._emit of a running source: every attached callback is called,
\* and on_event puts the event in the queue of its task.
SourceEmits ==
    /\ SourceId \in DOMAIN registry.sources
    /\ is_running(registry.sources[SourceId])
    /\ registry.sources[SourceId].events < MaxEmits
    /\ registry' = [registry EXCEPT !.sources[SourceId].events = @ + 1]
    /\ listeners' = [e \in DOMAIN listeners |->
          IF on_event(e) \in registry.sources[SourceId].subscribers
          THEN [listeners[e] EXCEPT !.queue = @ + 1]
          ELSE listeners[e]]
    /\ UNCHANGED <<workflow, pc, status, error, failed_nodes, pending, ready,
                   running, waiting, completed, node_outputs, loop_stack,
                   loop_contexts, wait_signals, timer_tasks, variables, tasks,
                   results, exec_count, early_ready, route_skipped, first_false,
                   signalled, executions, execution_tasks, pending_user_inputs,
                   subscriptions, source_events, emitted, last_call, input_log,
                   rounds, iterations_taken, tick, armed_at, exposed>>

\* wait_for_events of execution e takes an event from its queue: under mode
\* "any" it returns, unsubscribing in its finally block.
WaitForEventsReceive(e) ==
    /\ e \in DOMAIN listeners
    /\ listeners[e].state = "listening"
    /\ listeners[e].queue > 0
    /\ listeners' = [listeners EXCEPT ![e].state = "returned",
                                      ![e].queue = @ - 1,
                                      ![e].received = @ + 1]
    /\ registry' = Unsubscribed(registry, SourceId, SubscriberIdOf(ListenerIdx))
    /\ UNCHANGED <<workflow, pc, status, error, failed_nodes, pending, ready,
                   running, waiting, completed, node_outputs, loop_stack,
                   loop_contexts, wait_signals, timer_tasks, variables, tasks,
                   results, exec_count, early_ready, route_skipped, first_false,
                   signalled, executions, execution_tasks, pending_user_inputs,
                   subscriptions, source_events, emitted, last_call, input_log,
                   rounds, iterations_taken, tick, armed_at, exposed>>

\* The timeout of wait_for_events of execution e elapses with its queue
\* empty: it returns without an event, unsubscribing in its finally block.
WaitForEventsTimeout(e) ==
    /\ e \in DOMAIN listeners
    /\ listeners[e].state = "listening"
    /\ listeners[e].queue = 0
    /\ workflow.nodes[ListenerIdx].timeout_ms # None
    /\ listeners' = [listeners EXCEPT ![e].state = "timed out"]
    /\ registry' = Unsubscribed(registry, SourceId, SubscriberIdOf(ListenerIdx))
    /\ UNCHANGED <<workflow, pc, status, error, failed_nodes, pending, ready,
                   running, waiting, completed, node_outputs, loop_stack,
                   loop_contexts, wait_signals, timer_tasks, variables, tasks,
                   results, exec_count, early_ready, route_skipped, first_false,
                   signalled, executions, execution_tasks, pending_user_inputs,
                   subscriptions, source_events, emitted, last_call, input_log,
                   rounds, iterations_taken, tick, armed_at, exposed>>

\* Two executions of one workflow have both reached its listener node and
\* created their wait_for_events tasks; the source is registered.
ListenersInit ==
    /\ workflow \in {ListenOnSource(timeout) : timeout \in {None, "100"}}
    /\ Constructed
    /\ registry \in {Registered(config) :
                       config \in {c \in SourceConfigs :
                                      c.source_type = "timer" => c.max_triggers = -1}}
    /\ listeners = [e \in {ExecutionId, OtherExecutionId} |-> ListenerTask]

ListenersNext ==
    \/ \E e \in {ExecutionId, OtherExecutionId}, started \in BOOLEAN :
          WaitForEventsSubscribe(e, started)
    \/ SourceEmits
    \/ \E e \in {ExecutionId, OtherExecutionId} : WaitForEventsReceive(e)
    \/ \E e \in {ExecutionId, OtherExecutionId} : WaitForEventsTimeout(e)

ListenersSpec == ListenersInit /\ [][ListenersNext]_vars

\* get_execution_state(execution_id): the state object itself, whose node
\* lists are the copies made at the top of the last pass of the main loop.
get_execution_state == exposed

\* ------------------------------------------------------------------ claims
NodesOfType(types) == {n \in Nodes : workflow.nodes[n].type \in types}

OnLoopStack(k) == \E i \in 1 .. Len(loop_stack) : loop_stack[i] = k

Handled(signal, k) == \E i \in 0 .. DEFAULT_LOOP_MAX_ITERATIONS : <<signal, k, i>> \in signalled

\* C1: a node is put in ready (seeding, propagation, sweep after a loop
\* signal, loop-start re-queue, suspension resume) only while every source of
\* a non-loop-back edge into it is in completed.
C1_ReadyOnlyAfterDependencies == early_ready = {}

\* The nodes whose last result is a failure, and those of them whose result
\* the scheduler has taken.
FailingNodes == {n \in Nodes : ~results[n].success}

ObservedFailures == {n \in FailingNodes : tasks[n] = "none"}

\* cancel_execution has been called on the execution after it had ended, and
\* has replaced the error the run ended with.
CancelledAfterwards == pc # "cancelled" /\ error = <<"Cancelled by user">>

\* C2: a node result with success = false makes the run end failed, with the
\* failing node in failed_nodes and the error exposed (until a later
\* cancel_execution call replaces it); the run cannot complete, the node is
\* not executed again and nothing is launched after the failure has been
\* observed.
C2_FailFast ==
    /\ [](/\ FailingNodes # {} => status # "completed"
          /\ \A n \in ObservedFailures :
                /\ status = "failed"
                /\ \E i \in 1 .. Len(failed_nodes) : failed_nodes[i] = n
                /\ \/ error = <<"Node failed", n, results[n].error>>
                   \/ CancelledAfterwards
                /\ results[n].error # None)
    /\ [][\A n \in Nodes :
            (n \notin ObservedFailures /\ n \in ObservedFailures')
                => error' = <<"Node failed", n, results'[n].error>>]_vars
    /\ [][ObservedFailures # {} =>
            /\ status' = "failed"
            /\ running' \subseteq running
            /\ ready' = ready
            /\ \A n \in Nodes : tasks[n] = "none" => tasks'[n] = "none"
            /\ \A n \in ObservedFailures : exec_count'[n] = exec_count[n]]_vars

\* C2 witness: the failure of one script is observed while its sibling of the
\* same fan-out is still running.
C2_Witness == status = "failed" /\ failed_nodes = <<1>> /\ 2 \in running

\* An edge from r to d whose source slot is k or ends in ".k".
FiresOn(r, d, k) ==
    \E i \in 1 .. Len(workflow.edges) :
        LET e == workflow.edges[i]
        IN /\ e.source = r /\ e.target = d /\ ~e.loop
           /\ e.source_slot # <<>>
           /\ e.source_slot[Len(e.source_slot)] = k

\* C3: once a route node has completed with next_target = k, each of its
\* immediate dependents is either reached by an edge whose source slot is k
\* (or ends in .k) or has been short-circuited: in completed with empty
\* output, never launched; and a dependent is released only over such an edge.
C3_RouteFilter ==
    /\ \A d \in route_skipped :
          /\ d \in completed
          /\ d \in DOMAIN node_outputs /\ node_outputs[d] = EmptyDict
          /\ d \notin ready \cup running \cup waiting
          /\ tasks[d] = "none"
          /\ DOMAIN loop_contexts = {} => exec_count[d] = 0
    /\ \A r \in NodesOfType({"route_flow"}) : \A d \in dependents(r) :
          /\ (r \in completed /\ ~FiresOn(r, d, results[r].next_target))
                => d \in route_skipped
          /\ (d \in ready \cup running \/ tasks[d] # "none")
                => (r \in completed /\ FiresOn(r, d, results[r].next_target))

\* C3 witness: the route chose branch a; the first node of branch b was
\* short-circuited and the node of branch a has run.
C3_Witness ==
    /\ workflow = RouteJoin
    /\ results[1].next_target = "a"
    /\ 3 \in route_skipped
    /\ exec_count[2] = 1

\* C4: a join that depends on a chosen and on an unchosen branch of a route
\* is not blocked: when the run completes, a join one of whose dependencies
\* has run has run too.
C4_JoinNotBlocked ==
    \A j \in NodesOfType({"merge_flow"}) :
        (status = "completed" /\ \E d \in dependencies(j) : exec_count[d] > 0)
            => exec_count[j] > 0

\* A workflow with one plain loop whose condition is true and without break,
\* continue, route or delay nodes.
PlainLoopRun ==
    /\ Cardinality(LoopStarts) = 1
    /\ \A k \in LoopStarts : workflow.nodes[k].type = "loop_start_flow"
                             /\ workflow.nodes[k].condition
    /\ NodesOfType({"break_flow", "continue_flow", "route_flow", "delay_flow"}) = {}

\* C5: when a run of a plain loop with condition true and max_iter = N
\* completes, every body node and the end node has run exactly N times and
\* the loop context has iteration = N and is inactive.
C5_BodyRunsMaxIterTimes ==
    (PlainLoopRun /\ status = "completed") =>
        \A k \in LoopStarts :
            /\ \A b \in LoopBody(k) \cup {LoopEnd(k)} :
                  exec_count[b] = workflow.nodes[k].max_iter
            /\ loop_contexts[k].iteration = workflow.nodes[k].max_iter
            /\ ~loop_contexts[k].is_active

\* C6: when a run of a for-each loop over N items completes, every body node
\* has run exactly N times and the nodes after the end node have run.
C6_ForEachRunsOncePerItem ==
    \A k \in NodesOfType({"for_each_start_flow"}) :
        status = "completed" =>
            /\ \A b \in LoopBody(k) : exec_count[b] = workflow.nodes[k].items
            /\ \A d \in dependents(LoopEnd(k)) : exec_count[d] = 1

\* C7: a loop start whose condition is false on its first visit is never on
\* loop_stack, and every node of its body and its end node is in completed
\* without having run.
C7_FalseConditionSkipsBody ==
    \A k \in first_false :
        /\ ~OnLoopStack(k)
        /\ \A b \in LoopBody(k) \cup {LoopEnd(k)} : b \in completed /\ exec_count[b] = 0

\* C8: after a loop start whose condition was false on its first visit, the
\* nodes that depend on the loop end (their other dependencies completed)
\* have run when the run completes.
C8_FalseConditionContinuesAfterEnd ==
    \A k \in first_false :
        status = "completed" =>
            \A d \in dependents(LoopEnd(k)) :
                dependencies(d) \subseteq completed => exec_count[d] > 0

\* C9: once a break has been handled for a loop, its context is inactive and
\* off loop_stack, its body and end node are in completed, no body node is
\* launched any more, and the nodes after the loop end run before the run
\* completes.
C9_BreakSkipsRest ==
    /\ [](\A k \in LoopStarts : Handled("break", k) =>
            /\ ~loop_contexts[k].is_active
            /\ ~OnLoopStack(k)
            /\ LoopBody(k) \cup {LoopEnd(k)} \subseteq completed
            /\ status = "completed" =>
                  \A d \in dependents(LoopEnd(k)) : exec_count[d] > 0)
    /\ [][\A k \in LoopStarts : Handled("break", k) =>
            \A b \in LoopBody(k) : b \in running' => b \in running]_vars

\* C10: a continue adds exactly one to the iteration of the innermost
\* enclosing loop and ends the current iteration: afterwards a node of the body
\* (or the end node) is launched only once the loop start has completed
\* again; when the loop does not continue it ends as after a natural end.
C10_ContinueEndsIteration ==
    /\ [][\A k \in LoopStarts : \A i \in 0 .. MaxIter :
            (<<"continue", k, i>> \in signalled' \ signalled)
                => loop_contexts'[k].iteration = i + 1]_vars
    /\ [][\A k \in LoopStarts : Handled("continue", k) =>
            \A b \in LoopBody(k) \cup {LoopEnd(k)} :
                (b \in running' /\ b \notin running)
                    => (k \in completed' \/ ~loop_contexts'[k].is_active)]_vars
    /\ [](\A k \in LoopStarts :
            (Handled("continue", k) /\ status = "completed") =>
                /\ ~loop_contexts[k].is_active
                /\ ~OnLoopStack(k)
                /\ \A d \in dependents(LoopEnd(k)) : exec_count[d] > 0)

\* The value a node's last result carries on its "output" slot.
OutputOf(n) == results[n].outputs[<<"output">>]

\* The last result of n asks the scheduler to wait.
AsksToWait(n) == results[n].wait_signal # EmptyDict

\* C11: the first invocation of a delay node returns a timer wait signal and
\* the scheduler puts the node in waiting, not completed; a dependent of the
\* node is ready or running only after the node's resumed invocation has
\* completed; and the output of the resumed invocation is the input the node
\* had at its first invocation.
C11_DelayResumesWithInput ==
    /\ [](\A n \in NodesOfType({"delay_flow"}) :
            /\ (exec_count[n] = 1 /\ tasks[n] = "done") =>
                  (AsksToWait(n) /\ results[n].wait_signal.wait_type = "timer")
            /\ \A d \in dependents(n) :
                  d \in ready \cup running =>
                     (n \in completed /\ tasks[n] = "none" /\ ~AsksToWait(n)
                        /\ exec_count[n] >= 2)
            /\ (exec_count[n] > 0 /\ tasks[n] \in {"none", "done"} /\ ~AsksToWait(n)) =>
                  /\ Len(input_log[n]) >= 2
                  /\ OutputOf(n) = input_log[n][Len(input_log[n]) - 1])
    /\ [][\A n \in NodesOfType({"delay_flow"}) :
            (tasks[n] = "done" /\ AsksToWait(n) /\ tasks'[n] = "none") =>
                /\ n \in waiting'
                /\ n \notin completed'
                /\ n \in DOMAIN timer_tasks'
                /\ dependents(n) \cap ready' = {}]_vars

\* C11 witness: the delay of the line has resumed with input "x", put it on
\* its output, and the sink behind it has run.
C11_Witness ==
    /\ workflow = DelayLine
    /\ exec_count[2] = 2
    /\ 2 \in completed
    /\ input_log[2] = <<"x", "x">>
    /\ node_outputs[2][<<"output">>] = "x"
    /\ exec_count[3] = 1

\* The listener task of n is waiting for events; it has returned an event.
Listening(n) ==
    /\ n \in DOMAIN timer_tasks
    /\ timer_tasks[n].kind = "event_listener"
    /\ timer_tasks[n].state = "listening"

EndedByEvent(n) ==
    /\ n \in DOMAIN timer_tasks
    /\ timer_tasks[n].kind = "event_listener"
    /\ timer_tasks[n].state = "done"
    /\ timer_tasks[n].source # None

\* C12: a listener in mode all returns an event only when every source it
\* listed has emitted since it subscribed; in mode any or race it returns on
\* the first event of any of its sources; the event it returns is the one
\* just emitted, and the resumed node puts that event's payload and source id
\* on its outputs.
C12_ListenerModes ==
    /\ [](\A n \in NodesOfType({"event_listener_flow"}) :
            (EndedByEvent(n) /\ wait_signals[n].mode = "all") =>
                \A x \in wait_signals[n].sources :
                    source_events[x] > timer_tasks[n].since[x])
    /\ [][\A n \in NodesOfType({"event_listener_flow"}) :
            (Listening(n) /\ EndedByEvent(n)') =>
                LET src == timer_tasks'[n].source
                IN /\ src \in wait_signals[n].sources
                   /\ source_events'[src] = source_events[src] + 1
                   /\ timer_tasks'[n].event = <<src, source_events'[src]>>
                   /\ wait_signals[n].mode \in {"any", "race"} =>
                         \A x \in wait_signals[n].sources :
                             source_events[x] = timer_tasks[n].since[x]]_vars
    /\ [][\A n \in NodesOfType({"event_listener_flow"}) :
            (/\ Listening(n)
             /\ wait_signals[n].mode \in {"any", "race"}
             /\ \E x \in wait_signals[n].sources : source_events'[x] > source_events[x])
                => EndedByEvent(n)']_vars
    /\ [][\A n \in NodesOfType({"event_listener_flow"}) :
            (EndedByEvent(n) /\ n \in variables'.event_listener_resume
                             /\ n \notin variables.event_listener_resume) =>
                /\ variables'.event_listener_data[n].event = timer_tasks[n].event
                /\ variables'.event_listener_data[n].source = timer_tasks[n].source
                /\ n \in running']_vars
    /\ [][\A n \in NodesOfType({"event_listener_flow"}) :
            (tasks[n] = "started" /\ tasks'[n] = "done"
                /\ n \in variables.event_listener_resume) =>
                /\ results'[n].outputs[<<"event">>] = variables.event_listener_data[n].event
                /\ results'[n].outputs[<<"source_id">>] =
                       variables.event_listener_data[n].source]_vars

\* C12 witness: a listener in mode all has resumed on the first event of s2,
\* which came after two events of s1.
C12_Witness ==
    /\ workflow = ListenerLine("all", None)
    /\ 1 \in completed
    /\ exec_count[1] = 2
    /\ node_outputs[1][<<"source_id">>] = "s2"
    /\ node_outputs[1][<<"event">>] = <<"s2", 1>>
    /\ source_events["s1"] = 2

\* The sources n's subscriber id is subscribed to.
SubscribedSources(n) == {x[1] : x \in {y \in subscriptions : y[2] = n}}

\* C13: when the listener task of a node has finished - with an event, by
\* timeout, by an error, or cancelled by a reset of its loop body - the
\* node's subscriber id is subscribed to none of the sources it listed.
C13_ListenerUnsubscribes ==
    /\ [](\A n \in NodesOfType({"event_listener_flow"}) :
            (n \in DOMAIN timer_tasks /\ timer_tasks[n].state \in {"done", "error"})
                => SubscribedSources(n) \cap wait_signals[n].sources = {})
    /\ [][\A n \in NodesOfType({"event_listener_flow"}) :
            (n \in DOMAIN timer_tasks /\ n \notin DOMAIN timer_tasks')
                => SubscribedSources(n)' \cap workflow.nodes[n].sources = {}]_vars

\* The non-null inputs gate n has been invoked with, oldest first.
Fed(n) == SelectSeq(input_log[n], LAMBDA v : v # None)

\* The last k values of sequence q.
LastOf(q, k) == SubSeq(q, Len(q) - k + 1, Len(q))

\* The gates without a custom condition that have been invoked.
ThresholdGates ==
    {n \in NodesOfType({"gate_flow"}) :
        workflow.nodes[n].gate_condition = None /\ Len(input_log[n]) > 0}

\* C14: a gate with threshold T and no custom condition reports triggered =
\* false and output None on a non-null input that is not the T-th, and
\* triggered = true on the T-th. With reset_on_fire the count and the
\* accumulator start again after a firing, so the gate fires on every T-th
\* non-null input; without it they are kept, so it fires on every non-null
\* input from the T-th on.
C14_GateThreshold ==
    \A n \in ThresholdGates :
        LET T == workflow.nodes[n].threshold
            fed == Fed(n)
            out == results[n].outputs
            count == Get(variables.gate_count, n, 0)
            accumulated == Get(variables.gate_accumulated, n, <<>>)
        IN /\ input_log[n][Len(input_log[n])] # None =>
                /\ out[<<"triggered">>] =
                       IF workflow.nodes[n].reset_on_fire THEN Len(fed) % T = 0
                       ELSE Len(fed) >= T
                /\ ~out[<<"triggered">>] => out[<<"output">>] = <<None>>
                /\ out[<<"triggered">>] => out[<<"output">>] # <<None>>
           /\ IF workflow.nodes[n].reset_on_fire
              THEN count = Len(fed) % T /\ accumulated = LastOf(fed, Len(fed) % T)
              ELSE count = Len(fed) /\ accumulated = fed

\* A gate of threshold 2 with reset_on_fire fires for the second time, on its
\* fourth non-null input.
C14_Witness ==
    /\ workflow = GateLoop(2, None, TRUE)
    /\ Len(Fed(2)) = 4
    /\ results[2].outputs[<<"triggered">>]
    /\ results[2].outputs[<<"output">>] = <<"list", <<"x", "x">>>>

\* C15: a gate fires on an invocation exactly when its count has reached the
\* threshold or its custom condition is true, also when a custom condition is
\* configured and the count has reached the threshold.
C15_GateFiresOnThresholdOrCondition ==
    \A n \in NodesOfType({"gate_flow"}) :
        Len(input_log[n]) > 0 =>
            LET node == workflow.nodes[n]
                out == results[n].outputs
            IN out[<<"triggered">>] =
                   \/ out[<<"count">>] >= node.threshold
                   \/ /\ node.gate_condition # None
                      /\ EvalCondition(node.gate_condition, out[<<"count">>],
                                       node.threshold, out[<<"accumulated">>],
                                       input_log[n][Len(input_log[n])])

\* C16: once cancel_execution has been called on a running execution, its
\* status is failed with the cancellation reason and no node-started
\* notification is emitted for it any more, whatever node tasks had already
\* been created.
C16_NoNodeStartedAfterCancel ==
    /\ [][last_call' = <<"cancel_execution", ExecutionId>> /\ last_call' # last_call
            => status' = "failed" /\ error' = <<"Cancelled by user">>]_vars
    /\ [](error = <<"Cancelled by user">> => status = "failed")
    /\ [][error = <<"Cancelled by user">>
            => emitted'.node_started = emitted.node_started]_vars

\* The user-input nodes whose task is blocked on its future.
BlockedInputs == {n \in NodesOfType({"user_input_flow"}) : tasks[n] = "blocked"}

\* C17: a user-input node blocks on a future keyed by (execution id, node
\* index). A provide_user_input call with exactly that key resolves it and the
\* node's output is the supplied value; a call for another execution or
\* another node index leaves it blocked; when the timeout comes first the node
\* fails with a timeout error and the run is aborted as failed.
C17_UserInput ==
    /\ [](status = "running" =>
            \A n \in BlockedInputs : <<ExecutionId, n>> \in pending_user_inputs)
    /\ [][\A n \in BlockedInputs :
            \A e \in {ExecutionId, OtherExecutionId}, m \in Nodes, v \in UserInputs :
                (last_call' = <<"provide_user_input", e, m, v>> /\ last_call' # last_call)
                    => IF <<e, m>> = <<ExecutionId, n>> /\ <<e, m>> \in pending_user_inputs
                       THEN /\ tasks'[n] = "done"
                            /\ results'[n].success
                            /\ results'[n].outputs[<<"message">>] = v
                       ELSE /\ tasks'[n] = "blocked"
                            /\ pending_user_inputs' = pending_user_inputs]_vars
    /\ [][\A n \in BlockedInputs :
            tasks'[n] # "blocked" =>
                /\ tasks'[n] = "done"
                /\ IF results'[n].success
                   THEN last_call' = <<"provide_user_input", ExecutionId, n,
                                       results'[n].outputs[<<"message">>]>>
                   ELSE results'[n].error = "User input timeout"]_vars
    /\ [](\A n \in NodesOfType({"user_input_flow"}) :
            /\ n \in completed =>
                  /\ results[n].success
                  /\ node_outputs[n] = results[n].outputs
                  /\ results[n].outputs[<<"message">>] \in UserInputs
            /\ (exec_count[n] > 0 /\ ~results[n].success /\ tasks[n] = "none") =>
                  /\ status = "failed"
                  /\ \/ error = <<"Node failed", n, "User input timeout">>
                     \/ CancelledAfterwards
                  /\ n \notin completed)

\* The input typed for the blocked node has become its output and the run
\* went on to complete.
C17_Witness ==
    /\ workflow = UserInputLine
    /\ status = "completed"
    /\ last_call = <<"provide_user_input", ExecutionId, 1, "other">>
    /\ node_outputs[1][<<"message">>] = "other"

\* The workflow has no node that waits on an external event or on user input.
NoExternalWaits == NodesOfType({"event_listener_flow", "user_input_flow"}) = {}

\* The run has ended.
Terminated == status \in {"completed", "failed"}

\* Every loop has taken at most max_iterations iterations (one iteration for
\* a loop whose max_iterations is 0: its first pass is not subject to the cap).
LoopsBounded ==
    \A k \in DOMAIN loop_contexts :
        \/ loop_contexts[k].iteration <= loop_contexts[k].max_iterations
        \/ loop_contexts[k].iteration = 1 /\ loop_contexts[k].max_iterations = 0

TooManyEntriesOrExits ==
    \/ Cardinality(NodesOfType({"start_flow"})) > 1
    \/ Cardinality(NodesOfType({"end_flow"})) > 1

StateSetsOf(n) ==
    {x \in {"pending", "ready", "running", "waiting", "completed"} :
        \/ x = "pending" /\ n \in pending
        \/ x = "ready" /\ n \in ready
        \/ x = "running" /\ n \in running
        \/ x = "waiting" /\ n \in waiting
        \/ x = "completed" /\ n \in completed}

\* C20: at every point of a run each node index is in at most one of pending,
\* ready, running, waiting and completed.
C20_StateSetsDisjoint == \A n \in Nodes : Cardinality(StateSetsOf(n)) <= 1

\* C21: at every point of a run node_outputs has an entry only for node
\* indices that are in completed; a node moved to waiting by a wait signal and
\* a loop start re-queued for another iteration have no stored outputs.
C21_OutputsOnlyOfCompleted == DOMAIN node_outputs \subseteq completed

\* The scheduler takes a result of node n that arms a timer or a listener.
ArmingStep(n) ==
    /\ pc = "inner"
    /\ tasks[n] = "done" /\ tasks'[n] = "none"
    /\ results[n].success
    /\ results[n].wait_signal # EmptyDict
    /\ results[n].wait_signal.wait_type \in {"timer", "event_listener"}

\* The suspension task held for node n has not finished.
Unfinished(n) ==
    n \in DOMAIN timer_tasks /\ timer_tasks[n].state \notin {"done", "error"}

\* C22: at every point of a run every node in waiting has a suspension task
\* and no suspension task is held for a node that is not in waiting; arming a
\* wait for a node never leaves an earlier, unfinished suspension task of the
\* same node behind.
C22_OneSuspensionTaskPerWaitingNode ==
    /\ [](\A n \in waiting : n \in DOMAIN timer_tasks)
    /\ [](\A n \in DOMAIN timer_tasks : n \in waiting)
    /\ [][\A n \in Nodes : ArmingStep(n) => ~Unfinished(n)]_vars

\* C23: the status of a run becomes completed only in a state where ready,
\* running, the suspension tasks and waiting are all empty, and they are
\* empty whenever the status is completed; while a suspension task is held
\* and nothing is ready or running the run stays running.
C23_CompletedOnlyWhenQuiet ==
    /\ [](status = "completed" =>
            /\ ready = {} /\ running = {}
            /\ DOMAIN timer_tasks = {} /\ waiting = {})
    /\ [][status # "completed" /\ status' = "completed" =>
            /\ ready = {} /\ running = {}
            /\ DOMAIN timer_tasks = {} /\ waiting = {}]_vars
    /\ [][(status = "running" /\ DOMAIN timer_tasks # {}) => status' # "completed"]_vars

\* A run with a delay node has completed: it went on polling while the timer
\* was outstanding and resumed the node.
C23_Witness ==
    /\ workflow = DelayLine
    /\ status = "completed"
    /\ exec_count[2] = 2
    /\ rounds = 5

\* The keys of the variable store that the execution of node n reads or
\* writes: "_loop_iteration" for a loop start and a for-each start, the
\* keys named after its own index for a gate, a delay and an event listener.
VariableKeys(n) ==
    LET ty == workflow.nodes[n].type
    IN IF ty \in {"loop_start_flow", "for_each_start_flow"} THEN {<<"_loop_iteration">>}
       ELSE IF ty = "gate_flow" THEN {<<"_gate_accumulated", n>>, <<"_gate_count", n>>}
       ELSE IF ty = "delay_flow" THEN {<<"_delay_resume", n>>}
       ELSE IF ty = "event_listener_flow"
       THEN {<<"_event_listener_resume", n>>, <<"_event_listener_event", n>>,
             <<"_event_listener_source", n>>, <<"_event_listener_events", n>>,
             <<"_event_listener_timeout", n>>}
       ELSE {}

\* C24: no two node executions that are in running at the same time read or
\* write the same key of the variable store, the loop-iteration key included.
C24_NoSharedVariableKey ==
    \A n \in running, m \in running :
        n # m => VariableKeys(n) \cap VariableKeys(m) = {}

TheSource == registry.sources[SourceId]

\* C25: an enabled source that is not a browser source is started by the
\* subscribe that gives it its first subscriber and stopped by the unsubscribe
\* that leaves it without subscribers, so it is running exactly when it has a
\* subscriber; a browser source keeps its status when its last subscriber
\* leaves.
C25_RunningIffSubscribed ==
    /\ []((TheSource.config.enabled /\ TheSource.config.source_type # "browser")
            => (is_running(TheSource) <=> subscriber_count(TheSource) >= 1))
    /\ [][(/\ TheSource.config.enabled
           /\ TheSource.config.source_type # "browser"
           /\ subscriber_count(TheSource) = 0
           /\ subscriber_count(TheSource') = 1) => is_running(TheSource')]_vars
    /\ [][(/\ TheSource.config.source_type = "browser"
           /\ subscriber_count(TheSource) = 1
           /\ subscriber_count(TheSource') = 0)
            => TheSource'.status = TheSource.status]_vars

\* C26: a timer source with max_triggers = M > 0 emits at most M events per
\* start, the immediate event included; with max_triggers = -1 its run loop
\* never ends by itself and emits one event per interval.
C26_TimerMaxTriggers ==
    /\ []((TheSource.config.source_type = "timer" /\ TheSource.config.max_triggers > 0)
            => TheSource.events <= TheSource.config.max_triggers)
    /\ [][(/\ TheSource.config.source_type = "timer"
           /\ TheSource.config.max_triggers = -1
           /\ TheSource.task = "waiting"
           /\ TheSource'.task # "none")
            => /\ TheSource'.task = "waiting"
               /\ TheSource'.events \in {TheSource.events, TheSource.events + 1}]_vars

\* C27: when an iteration of a plain loop ends (its iteration counter is
\* incremented) while its continuation condition, taken from the inbound
\* condition edge when one delivers a value and from the node otherwise, is
\* false, the loop start is not queued again and the loop is over.
C27_FalseConditionEndsLoop ==
    [][\A k \in DOMAIN loop_contexts :
          (/\ workflow.nodes[k].type = "loop_start_flow"
           /\ k \in DOMAIN loop_contexts'
           /\ loop_contexts'[k].iteration = loop_contexts[k].iteration + 1
           /\ ~_gather_loop_condition(k, Locals))
            => /\ k \notin ready'
               /\ ~loop_contexts'[k].is_active]_vars

\* The loop starts that lie in the body of no other loop: they are activated
\* once in a run.
OuterLoopStarts ==
    {k \in DOMAIN loop_contexts :
        \A j \in DOMAIN loop_contexts : k \notin loop_contexts[j].body_nodes}

\* The body nodes of loop k that run once per launch (they never suspend).
StraightBody(k) ==
    {b \in loop_contexts[k].body_nodes :
        workflow.nodes[b].type \in {"transform_flow", "route_flow", "continue_flow",
                                    "break_flow"}}

\* C28: max_iter caps the iterations: no body node of a plain loop with
\* max_iter = N >= 0 is executed more than N times in one activation.
C28_MaxIterCapsBody ==
    \A k \in OuterLoopStarts :
        workflow.nodes[k].type = "loop_start_flow"
            => \A b \in StraightBody(k) : exec_count[b] <= workflow.nodes[k].max_iter

\* C29 as stated: a node made ready by one completion is launched without
\* waiting for the remaining tasks of the fan-out: the scheduler collects no
\* other task of the fan-out while that node still sits in ready.
C29_LaunchedBeforeFanOutEnds ==
    [][\A n \in Nodes, m \in Nodes :
          (pc = "inner" /\ n \in ready /\ m # n /\ tasks[m] # "none")
            => ~(tasks'[m] = "none" /\ n \in ready')]_vars

\* C29, amended: the scheduler collects the completions of a fan-out one at a
\* time, the other tasks staying in flight, but it launches a node (ready to
\* running) only when every task of the previous fan-out has been collected.
C29_LaunchedAfterFanOutDrained ==
    /\ [][\A n \in Nodes :
             (n \in ready /\ n \notin running /\ n \in running')
                => \A m \in Nodes : tasks[m] = "none"]_vars
    /\ [][\A n \in Nodes :
             (pc = "inner" /\ tasks[n] = "done" /\ tasks'[n] = "none")
                => \A m \in Nodes \ {n} : tasks'[m] = tasks[m]]_vars

\* Node 3 has been made ready by the completion of node 1 and is launched
\* only after node 2, of the same fan-out as node 1, has been collected.
C29_Witness ==
    /\ workflow = FanOutChain
    /\ pc = "inner"
    /\ 3 \in running
    /\ completed = {0, 1, 2}

\* The loop start k is queued again with its body reset: an iteration of k
\* has ended and another one begins.
BodyReset(k) ==
    /\ k \in DOMAIN loop_contexts
    /\ loop_contexts'[k].iteration = loop_contexts[k].iteration + 1
    /\ k \in ready'

\* The loop starts that lie in the body of k in the graph.
NestedIn(k) == {j \in DOMAIN loop_contexts : j \in LoopBody(k)}

\* C30: when the body of a loop is reset for another iteration, every loop
\* context whose start lies in that body has iteration 0 and is active again;
\* an inner loop with max_iter M nested in an outer loop with max_iter N
\* (conditions true, no break) has executed its body N * M times when the
\* run has completed.
C30_NestedLoopsReset ==
    /\ [][\A k \in Nodes :
             BodyReset(k) => \A j \in NestedIn(k) :
                                /\ loop_contexts'[j].iteration = 0
                                /\ loop_contexts'[j].is_active]_vars
    /\ [](\A n \in 1 .. MaxIter, m \in 1 .. MaxIter :
             (workflow = NestedLoop(n, m) /\ status = "completed")
                => exec_count[2] = n * m /\ exec_count[4] = n)

\* The outer loop of a nested loop starts its second iteration after the
\* inner loop has finished its two iterations.
C30_Witness ==
    /\ workflow = NestedLoop(2, 2)
    /\ 1 \in DOMAIN loop_contexts
    /\ loop_contexts[0].iteration = 1
    /\ loop_contexts[1].iteration = 0 /\ loop_contexts[1].is_active
    /\ exec_count[2] = 2
    /\ 0 \in ready

\* C31: for every loop start whose end node has been found, body_nodes holds
\* every node reachable from the loop start over non-loop-back edges without
\* passing through that end node, the nodes of nested loops included, and
\* the end node found is of the type matching the start.
C31_DetectionCoversBody ==
    \A k \in DOMAIN loop_contexts :
        loop_contexts[k].loop_end_idx # NoNode
            => /\ workflow.nodes[loop_contexts[k].loop_end_idx].type
                    = EndTypeOf(workflow.nodes[k])
               /\ LoopBody(k) \subseteq loop_contexts[k].body_nodes

\* C32: every execution of a for-each start node outputs, as index, the
\* iteration counter of its own loop and, as current, the item at that index.
C32_ForEachIndexIsOwnIteration ==
    [][\A n \in NodesOfType({"for_each_start_flow"}) :
          (tasks[n] = "started" /\ tasks'[n] = "done" /\ n \in DOMAIN loop_contexts)
            => /\ results'[n].outputs[<<"index">>] = loop_contexts[n].iteration
               /\ results'[n].outputs[<<"current">>]
                    = IF loop_contexts[n].iteration < workflow.nodes[n].items
                      THEN <<"item", loop_contexts[n].iteration>> ELSE <<None>>]_vars

\* The delay nodes that lie in the body of a loop.
LoopDelays == {n \in NodesOfType({"delay_flow"}) : DOMAIN Iterations(n) # {}}

\* C33: a delay node in a loop body asks for a timer once per iteration: an
\* invocation that finds the resume flag unset is the first one of its
\* iteration, and an invocation that finds it set (the pass-through) runs in
\* the iteration in which the timer was asked for.
C33_DelayArmsOncePerIteration ==
    [][\A n \in LoopDelays :
          (tasks[n] = "started" /\ tasks'[n] = "done")
            => IF n \in variables.delay_resume
               THEN armed_at[n] = Iterations(n)
               ELSE armed_at[n] # Iterations(n)]_vars

\* The result of the task of n is collected after a reset of its loop body
\* has taken n out of running and put it back in pending.
LateResult(n) ==
    /\ pc = "inner"
    /\ tasks[n] = "done" /\ tasks'[n] = "none"
    /\ n \notin running
    /\ n \in pending

\* C34: the late result of a body node that was still running when its loop
\* body was reset neither marks the node completed nor stores its outputs:
\* the node stays pending.
C34_LateResultIgnored ==
    [][\A n \in Nodes :
          LateResult(n) => /\ n \notin completed'
                           /\ n \notin DOMAIN node_outputs'
                           /\ n \in pending']_vars

\* Every path to d from the start of the pass goes through a node that a
\* route filter has short-circuited in this pass.
RECURSIVE Unchosen(_)
Unchosen(d) ==
    \/ d \in route_skipped
    \/ dependencies(d) # {} /\ \A x \in dependencies(d) : Unchosen(x)

\* C35: a node that can only be reached through an unchosen branch of a route
\* is not executed in that pass, also after a loop signal has made the
\* scheduler sweep the pending nodes.
C35_UnchosenBranchNeverRuns ==
    [][\A d \in Nodes : exec_count'[d] > exec_count[d] => ~Unchosen(d)]_vars

\* C36: two executions of one workflow waiting in the listener at the same
\* node index on the same source do not interfere: no subscribe of one is
\* refused because of the other, and a listening execution stays attached to
\* the source whatever the other one does.
C36_ConcurrentListenersIndependent ==
    \A e \in DOMAIN listeners :
        /\ listeners[e].raised # "Already subscribed"
        /\ listeners[e].state = "listening"
              => on_event(e) \in registry.sources[SourceId].subscribers

\* C37: a terminal status (completed or failed) never changes afterwards,
\* nor does the error recorded with it; in particular cancel_execution on a
\* completed execution leaves them as they are.
C37_TerminalStatusFinal ==
    [][(status = "completed" \/ status = "failed")
          => (status' = status /\ error' = error)]_vars

\* C38: a run does not end with status completed while a node index is
\* recorded in failed_nodes; a suspension task that raises fails the run.
C38_NoCompletedRunWithFailedNode ==
    status = "completed" => failed_nodes = <<>>

\* C39: once the status is completed, the execution state returned by
\* get_execution_state shows ready, running and waiting empty and shows in
\* completed every node that was executed: its lists are the scheduler's
\* final sets.
C39_ExposedStateFinal ==
    status = "completed"
        => /\ get_execution_state.ready_nodes = {}
           /\ get_execution_state.running_nodes = {}
           /\ get_execution_state.waiting_nodes = {}
           /\ \A n \in Nodes : exec_count[n] > 0 => n \in get_execution_state.completed_nodes
           /\ get_execution_state.completed_nodes = completed

\* C40: when a user-input request times out, and when its run is cancelled,
\* no entry is left in pending_user_inputs under its key, so that a later
\* provide_user_input for the key finds nothing to resolve.
C40_NoPendingEntryAfterTimeoutOrCancel ==
    [][/\ \A n \in Nodes :
             (tasks[n] = "blocked" /\ tasks'[n] = "done" /\ ~results'[n].success)
                => input_key(ExecutionId, n) \notin pending_user_inputs'
       /\ (pc # "cancelled" /\ pc' = "cancelled")
             => \A k \in pending_user_inputs' : k[1] # ExecutionId]_vars

=============================================================================
